---- MODULE Spec2Model ----
(***************************************************************************)
(* Model of the essay-analysis pipeline of Checkit (Sealion Scribe):      *)
(* src/src/components/EssayChecker.tsx, analyzeEssaySecurely and the JS   *)
(* library functions it calls.  Text is a sequence of one-character       *)
(* strings, so that the regular expressions, indexOf/lastIndexOf/slice,   *)
(* JSON.parse and JSON.stringify of the source are computed, not assumed. *)
(***************************************************************************)
EXTENDS Integers, Sequences, FiniteSets, TLC

(***************************************************************************)
(* Characters and text                                                     *)
(***************************************************************************)

\* the characters of a string literal, one by one
Chars(str) == [i \in 1..Len(str) |-> SubSeq(str, i, i)]

\* the characters \s matches and trim() removes (of the model's alphabet)
WhiteSpace == {" ", "\n", "\r", "\t"}

UpperChars == <<"A","B","C","D","E","F","G","H","I","J","K","L","M",
                "N","O","P","Q","R","S","T","U","V","W","X","Y","Z">>

LowerChars == <<"a","b","c","d","e","f","g","h","i","j","k","l","m",
                "n","o","p","q","r","s","t","u","v","w","x","y","z">>

DigitChars == <<"0","1","2","3","4","5","6","7","8","9">>

UpperSet == {UpperChars[i] : i \in DOMAIN UpperChars}

DigitSet == {DigitChars[i] : i \in DOMAIN DigitChars}

\* String.prototype.toLowerCase on one character
LowerOfChar == [c \in UpperSet |-> LowerChars[CHOOSE i \in DOMAIN UpperChars : UpperChars[i] = c]]

DigitVal == [c \in DigitSet |-> (CHOOSE i \in DOMAIN DigitChars : DigitChars[i] = c) - 1]

LowerChar(c) == IF c \in UpperSet THEN LowerOfChar[c] ELSE c

\* String.prototype.toLowerCase
toLowerCase(s) == [i \in 1..Len(s) |-> LowerChar(s[i])]

\* s.startsWith(p, at i) with 1-based i: p occurs in s at position i
OccursAt(s, p, i) ==
    /\ i >= 1
    /\ i + Len(p) - 1 <= Len(s)
    /\ \A k \in 1..Len(p) : s[i + k - 1] = p[k]

\* String.prototype.startsWith
startsWith(s, p) == OccursAt(s, p, 1)

\* String.prototype.includes
includes(s, p) == \E i \in 1..(Len(s) - Len(p) + 1) : OccursAt(s, p, i)

\* String.prototype.indexOf for one character; 0 stands for JS's -1 (not found),
\* positions are 1-based
indexOf(s, c) ==
    IF \E i \in 1..Len(s) : s[i] = c
    THEN CHOOSE i \in 1..Len(s) : s[i] = c /\ \A j \in 1..(i-1) : s[j] # c
    ELSE 0

\* String.prototype.lastIndexOf for one character; 0 stands for -1
lastIndexOf(s, c) ==
    IF \E i \in 1..Len(s) : s[i] = c
    THEN CHOOSE i \in 1..Len(s) : s[i] = c /\ \A j \in (i+1)..Len(s) : s[j] # c
    ELSE 0

\* first position >= i of s holding no white space (Len(s)+1 when there is none)
RECURSIVE SkipWs(_, _)
SkipWs(s, i) ==
    IF i <= Len(s) /\ s[i] \in WhiteSpace THEN SkipWs(s, i + 1) ELSE i

\* last position <= i of s holding no white space (0 when there is none)
RECURSIVE SkipWsBack(_, _)
SkipWsBack(s, i) ==
    IF i >= 1 /\ s[i] \in WhiteSpace THEN SkipWsBack(s, i - 1) ELSE i

\* String.prototype.trim
trim(s) == SubSeq(s, SkipWs(s, 1), SkipWsBack(s, Len(s)))

\* s.slice(i) with 1-based i
From(s, i) == SubSeq(s, i, Len(s))

\* the least element of a non-empty set of integers
Min(S) == CHOOSE x \in S : \A y \in S : x <= y

\* the concatenation of ss[lo..hi], by halves
RECURSIVE ConcatRange(_, _, _)
ConcatRange(ss, lo, hi) ==
    IF lo > hi THEN <<>>
    ELSE IF lo = hi THEN ss[lo]
    ELSE LET mid == (lo + hi) \div 2
         IN  ConcatRange(ss, lo, mid) \o ConcatRange(ss, mid + 1, hi)

\* the concatenation of a sequence of sequences
Concat(ss) == ConcatRange(ss, 1, Len(ss))

\* Array.prototype.join on texts
Join(ss, sep) == Concat([i \in 1..Len(ss) |-> IF i = 1 THEN ss[i] ELSE sep \o ss[i]])

(***************************************************************************)
(* JavaScript values.  Every value is a tagged record; a string holds its *)
(* characters, an object its properties in insertion order.               *)
(***************************************************************************)

Undefined == [t |-> "undefined"]

Null == [t |-> "null"]

Bool(b) == [t |-> "boolean", b |-> b]

Num(n) == [t |-> "number", n |-> n]

Str(s) == [t |-> "string", s |-> s]

Arr(a) == [t |-> "array", a |-> a]

Obj(o) == [t |-> "object", o |-> o]

Prop(k, v) == [k |-> k, v |-> v]

IsString(v) == v.t = "string"

IsArray(v) == v.t = "array"

IsObject(v) == v.t = "object"

\* ToBoolean: what `if (v)`, `!v` and `v || w` test
Truthy(v) ==
    CASE v.t = "undefined" -> FALSE
      [] v.t = "null" -> FALSE
      [] v.t = "boolean" -> v.b
      [] v.t = "number" -> v.n # 0
      [] v.t = "string" -> v.s # <<>>
      [] OTHER -> TRUE

\* a || b
Or(a, b) == IF Truthy(a) THEN a ELSE b

HasKey(v, k) == IsObject(v) /\ \E i \in DOMAIN v.o : v.o[i].k = k

\* v?.k : the property k of v, undefined when v has none (the keys read by the
\* source are own properties of plain objects only)
Get(v, k) ==
    IF HasKey(v, k)
    THEN v.o[CHOOSE i \in DOMAIN v.o : v.o[i].k = k /\ \A j \in (i+1)..Len(v.o) : v.o[j].k # k].v
    ELSE Undefined

(***************************************************************************)
(* JSON.parse and JSON.stringify (ECMA-404), on the model's alphabet: no  *)
(* \u, \b or \f escapes, and numbers without fraction or exponent.        *)
(***************************************************************************)

ParseFail == [ok |-> FALSE, val |-> Undefined, pos |-> 0]

ParseOk(v, p) == [ok |-> TRUE, val |-> v, pos |-> p]

\* the character an escape \c inside a JSON string stands for
UnescapeChar(c) ==
    CASE c = "n" -> "\n"
      [] c = "r" -> "\r"
      [] c = "t" -> "\t"
      [] OTHER -> c

EscapeChars == {"\"", "\\", "/", "n", "r", "t"}

\* the number of consecutive backslashes of s that end at position k
RECURSIVE BackslashRun(_, _)
BackslashRun(s, k) == IF k >= 1 /\ s[k] = "\\" THEN 1 + BackslashRun(s, k - 1) ELSE 0

\* position k of a string body starts an escape: a backslash that is not itself escaped
EscapeStart(s, k) == s[k] = "\\" /\ BackslashRun(s, k - 1) % 2 = 0

\* the JSON string whose opening quote is at position j - 1: its body runs to the
\* first quote that no backslash escapes
ScanString(s, j) ==
    LET quotes == {q \in j..Len(s) : s[q] = "\"" /\ BackslashRun(s, q - 1) % 2 = 0}
    IN  IF quotes = {} THEN ParseFail
        ELSE LET q  == Min(quotes)
                 ok == \A k \in j..(q - 1) :
                          /\ s[k] \notin {"\n", "\r", "\t"}
                          /\ EscapeStart(s, k) => s[k + 1] \in EscapeChars
             IN  IF ~ok THEN ParseFail
                 ELSE ParseOk(Str(Concat([n \in 1..(q - j) |->
                                   LET k == j + n - 1
                                   IN  IF EscapeStart(s, k) THEN <<>>
                                       ELSE IF k > j /\ EscapeStart(s, k - 1)
                                            THEN <<UnescapeChar(s[k])>>
                                       ELSE <<s[k]>>])),
                              q + 1)

\* the digits of a JSON number from position j, n the value read so far
RECURSIVE ScanDigits(_, _, _)
ScanDigits(s, j, n) ==
    IF j <= Len(s) /\ s[j] \in DigitSet
    THEN ScanDigits(s, j + 1, 10 * n + DigitVal[s[j]])
    ELSE [n |-> n, pos |-> j]

ParseNumber(s, i) ==
    LET neg == s[i] = "-"
        j   == IF neg THEN i + 1 ELSE i
    IN  IF j > Len(s) \/ s[j] \notin DigitSet THEN ParseFail
        ELSE LET d == IF s[j] = "0" THEN [n |-> 0, pos |-> j + 1]
                      ELSE ScanDigits(s, j, 0)
             IN  IF d.pos <= Len(s) /\ s[d.pos] \in {".", "e", "E"} THEN ParseFail
                 ELSE ParseOk(Num(IF neg THEN 0 - d.n ELSE d.n), d.pos)

\* o with property k set to v: a repeated key keeps its first position
SetProp(o, k, v) ==
    IF \E i \in DOMAIN o : o[i].k = k
    THEN [i \in DOMAIN o |-> IF o[i].k = k THEN Prop(k, v) ELSE o[i]]
    ELSE Append(o, Prop(k, v))

RECURSIVE ParseValue(_, _)
RECURSIVE ParseElements(_, _, _)
RECURSIVE ParseMembers(_, _, _)

\* the elements of an array from position i (white space skipped), acc read so far
ParseElements(s, i, acc) ==
    LET r == ParseValue(s, i)
        j == SkipWs(s, r.pos)
    IN  IF ~r.ok \/ j > Len(s) THEN ParseFail
        ELSE IF s[j] = "," THEN ParseElements(s, SkipWs(s, j + 1), Append(acc, r.val))
        ELSE IF s[j] = "]" THEN ParseOk(Arr(Append(acc, r.val)), j + 1)
        ELSE ParseFail

\* the members of an object from position i (white space skipped), acc read so far
ParseMembers(s, i, acc) ==
    IF i > Len(s) \/ s[i] # "\"" THEN ParseFail
    ELSE LET k == ScanString(s, i + 1)
             c == SkipWs(s, k.pos)
         IN  IF ~k.ok \/ c > Len(s) \/ s[c] # ":" THEN ParseFail
             ELSE LET r == ParseValue(s, SkipWs(s, c + 1))
                      j == SkipWs(s, r.pos)
                  IN  IF ~r.ok \/ j > Len(s) THEN ParseFail
                      ELSE IF s[j] = ","
                           THEN ParseMembers(s, SkipWs(s, j + 1), SetProp(acc, k.val.s, r.val))
                      ELSE IF s[j] = "}"
                           THEN ParseOk(Obj(SetProp(acc, k.val.s, r.val)), j + 1)
                      ELSE ParseFail

\* one JSON value at position i (white space skipped)
ParseValue(s, i) ==
    IF i > Len(s) THEN ParseFail
    ELSE IF s[i] = "{"
         THEN LET j == SkipWs(s, i + 1)
              IN  IF j <= Len(s) /\ s[j] = "}" THEN ParseOk(Obj(<<>>), j + 1)
                  ELSE ParseMembers(s, j, <<>>)
    ELSE IF s[i] = "["
         THEN LET j == SkipWs(s, i + 1)
              IN  IF j <= Len(s) /\ s[j] = "]" THEN ParseOk(Arr(<<>>), j + 1)
                  ELSE ParseElements(s, j, <<>>)
    ELSE IF s[i] = "\"" THEN ScanString(s, i + 1)
    ELSE IF s[i] = "-" \/ s[i] \in DigitSet THEN ParseNumber(s, i)
    ELSE IF OccursAt(s, Chars("true"), i) THEN ParseOk(Bool(TRUE), i + 4)
    ELSE IF OccursAt(s, Chars("false"), i) THEN ParseOk(Bool(FALSE), i + 5)
    ELSE IF OccursAt(s, Chars("null"), i) THEN ParseOk(Null, i + 4)
    ELSE ParseFail

\* JSON.parse(s): threw is TRUE when it raises SyntaxError
JSONParse(s) ==
    LET r == ParseValue(s, SkipWs(s, 1))
    IN  IF r.ok /\ SkipWs(s, r.pos) = Len(s) + 1
        THEN [threw |-> FALSE, val |-> r.val]
        ELSE [threw |-> TRUE, val |-> Undefined]

\* the decimal digits of a natural number
RECURSIVE NatDigits(_)
NatDigits(n) ==
    IF n < 10 THEN <<DigitChars[n + 1]>>
    ELSE Append(NatDigits(n \div 10), DigitChars[(n % 10) + 1])

\* Number.prototype.toString for an integer
NumberToString(n) == IF n < 0 THEN <<"-">> \o NatDigits(0 - n) ELSE NatDigits(n)

\* one character of a string as JSON.stringify writes it
EscapeChar(c) ==
    CASE c = "\"" -> <<"\\", "\"">>
      [] c = "\\" -> <<"\\", "\\">>
      [] c = "\n" -> <<"\\", "n">>
      [] c = "\r" -> <<"\\", "r">>
      [] c = "\t" -> <<"\\", "t">>
      [] OTHER -> <<c>>

Quote(s) == <<"\"">> \o Concat([i \in 1..Len(s) |-> EscapeChar(s[i])]) \o <<"\"">>

\* the properties of o whose value is not undefined (JSON.stringify omits the others)
RECURSIVE DefinedProps(_)
DefinedProps(o) ==
    IF o = <<>> THEN <<>>
    ELSE IF Head(o).v = Undefined THEN DefinedProps(Tail(o))
    ELSE <<Head(o)>> \o DefinedProps(Tail(o))

\* JSON.stringify(v) for a value other than undefined
RECURSIVE JSONStringify(_)
JSONStringify(v) ==
    CASE v.t = "string" -> Quote(v.s)
      [] v.t = "number" -> NumberToString(v.n)
      [] v.t = "boolean" -> IF v.b THEN Chars("true") ELSE Chars("false")
      [] v.t = "array" ->
            <<"[">> \o Join([i \in 1..Len(v.a) |-> JSONStringify(v.a[i])], <<",">>) \o <<"]">>
      [] v.t = "object" ->
            LET ps == DefinedProps(v.o)
            IN  <<"{">>
                \o Join([i \in 1..Len(ps) |-> Quote(ps[i].k) \o <<":">> \o JSONStringify(ps[i].v)],
                        <<",">>)
                \o <<"}">>
      [] OTHER -> Chars("null")

(***************************************************************************)
(* analyzeEssaySecurely: the normalization of the response text           *)
(* (EssayChecker.tsx lines 137-206)                                       *)
(***************************************************************************)

\* a promise rejected with an exception: the constructor's name, the message, and
\* the line that raises it
Thrown(name, message, line) ==
    [kind |-> "thrown", name |-> name, message |-> message, line |-> line]

\* a promise fulfilled with result by the return statement of the tier
Returned(tier, result) == [kind |-> "returned", tier |-> tier, result |-> result]

Pending == [kind |-> "pending"]

\* botReply.match(/JSON_SUMMARY\s*[:=]\s*([\s\S]*)/i) tried at position i:
\* the position of the capture group, 0 when the pattern does not match at i
SummaryMatchAt(s, i) ==
    IF i + 11 <= Len(s) /\ toLowerCase(SubSeq(s, i, i + 11)) = Chars("json_summary")
    THEN LET j == SkipWs(s, i + 12)
         IN  IF j <= Len(s) /\ s[j] \in {":", "="} THEN SkipWs(s, j + 1) ELSE 0
    ELSE 0

\* botReply.match(...): found, and summaryMatch[1] of the leftmost match
summaryMatch(s) ==
    LET hits == {i \in 1..Len(s) : SummaryMatchAt(s, i) > 0}
    IN  IF hits = {} THEN [found |-> FALSE, group |-> <<>>]
        ELSE LET i == CHOOSE i \in hits : \A j \in hits : i <= j
             IN  [found |-> TRUE, group |-> From(s, SummaryMatchAt(s, i))]

\* the grave accent, which a TLA+ string literal cannot hold: it is the one
\* character of the model written as a word
BackTick == "backtick"

Fence == <<BackTick, BackTick, BackTick>>

\* line 145, first replace: an opening fence tagged json, in any case, and the white space after it
StripOpenJsonFence(raw) ==
    IF startsWith(toLowerCase(raw), Fence \o Chars("json")) THEN From(raw, SkipWs(raw, 8)) ELSE raw

\* line 145, second replace: an opening fence and the white space after it
StripOpenFence(raw) ==
    IF startsWith(raw, Fence) THEN From(raw, SkipWs(raw, 4)) ELSE raw

\* line 145, third replace: the leftmost fence that only white space follows, to the end
StripCloseFence(raw) ==
    LET hits == {i \in 1..Len(raw) : OccursAt(raw, Fence, i) /\ SkipWs(raw, i + 3) = Len(raw) + 1}
    IN  IF hits = {} THEN raw
        ELSE SubSeq(raw, 1, (CHOOSE i \in hits : \A j \in hits : i <= j) - 1)

\* the three replace calls of lines 145 and 172
StripFences(raw) == StripCloseFence(StripOpenFence(StripOpenJsonFence(raw)))

\* BraceSlice, were the candidate parsed as it is
BraceSliceNever(raw) == raw

\* lines 147-151: slice from the first { to the last }
BraceSlice(raw) ==
    LET firstBrace == indexOf(raw, "{")
        lastBrace  == lastIndexOf(raw, "}")
    IN  IF firstBrace # 0 /\ lastBrace # 0 /\ lastBrace > firstBrace
        THEN SubSeq(raw, firstBrace, lastBrace)
        ELSE raw

\* the text JSON.parse is given in the marker branch (lines 143-151)
MarkerCandidate(group) == BraceSlice(StripFences(trim(group)))

\* the text JSON.parse is given in the whole-reply branch (line 172)
WholeCandidate(botReply) == StripFences(trim(botReply))

\* ...(x): the elements the spread of x adds to an array literal; a string is
\* iterated by character, a value that is not iterable raises TypeError
Spread(x) ==
    CASE x.t = "array" -> [threw |-> FALSE, items |-> x.a]
      [] x.t = "string" -> [threw |-> FALSE, items |-> [i \in 1..Len(x.s) |-> Str(<<x.s[i]>>)]]
      [] OTHER -> [threw |-> TRUE, items |-> <<>>]

\* SectionNames, were Conclusion spread before Body
SectionNamesSwapped ==
    <<Chars("Introduction"), Chars("Conclusion"), Chars("Body"), Chars("GrammarEditing")>>

\* the sections in the order lines 157-160 spread them
SectionNames == <<Chars("Introduction"), Chars("Body"), Chars("Conclusion"), Chars("GrammarEditing")>>

\* parsed.sections?.<name>?.suggestions || []
SectionSuggestions(parsed, name) ==
    Or(Get(Get(Get(parsed, Chars("sections")), name), Chars("suggestions")), Arr(<<>>))

\* the array literal of lines 156-161 and 177-182
SectionsSpread(parsed) ==
    LET parts == [i \in 1..Len(SectionNames) |-> Spread(SectionSuggestions(parsed, SectionNames[i]))]
    IN  IF \E i \in DOMAIN parts : parts[i].threw
        THEN [threw |-> TRUE, items |-> <<>>]
        ELSE [threw |-> FALSE, items |-> Concat([i \in DOMAIN parts |-> parts[i].items])]

AnalysisResult(strengths, weaknesses, suggestions, grammar) ==
    [strengths |-> strengths, weaknesses |-> weaknesses, suggestions |-> suggestions,
     grammar |-> grammar, success |-> TRUE]

NoResult == AnalysisResult(Undefined, Undefined, Undefined, Undefined)

\* pickStrengths, were the alias read before the primary key
pickStrengthsAliasFirst(parsed) ==
    Or(Or(Get(parsed, Chars("positiveFeedback")), Get(parsed, Chars("strengths"))), Arr(<<>>))

\* line 154 (and 175)
pickStrengths(parsed) ==
    Or(Or(Get(parsed, Chars("strengths")), Get(parsed, Chars("positiveFeedback"))), Arr(<<>>))

\* line 155 (and 176)
pickWeaknesses(parsed) ==
    Or(Or(Get(parsed, Chars("weaknesses")), Get(parsed, Chars("negativeFeedback"))), Arr(<<>>))

\* Reconcile, were parsed.grammar copied as it is
ReconcileCopiesGrammar(parsed) ==
    LET given == Get(parsed, Chars("suggestions"))
        sp    == IF Truthy(given) THEN [threw |-> FALSE, items |-> <<>>] ELSE SectionsSpread(parsed)
    IN  IF sp.threw THEN [threw |-> TRUE, result |-> NoResult]
        ELSE [threw |-> FALSE,
              result |-> AnalysisResult(pickStrengths(parsed), pickWeaknesses(parsed),
                                        IF Truthy(given) THEN given ELSE Arr(sp.items),
                                        Get(parsed, Chars("grammar")))]

\* lines 154-163 and 175-184 for a truthy parsed: the object returned, unless the
\* spread raises TypeError
Reconcile(parsed) ==
    LET given == Get(parsed, Chars("suggestions"))
        sp    == IF Truthy(given) THEN [threw |-> FALSE, items |-> <<>>] ELSE SectionsSpread(parsed)
    IN  IF sp.threw THEN [threw |-> TRUE, result |-> NoResult]
        ELSE [threw |-> FALSE,
              result |-> AnalysisResult(pickStrengths(parsed), pickWeaknesses(parsed),
                                        IF Truthy(given) THEN given ELSE Arr(sp.items),
                                        Or(Get(parsed, Chars("grammar")), Undefined))]

\* how a try block ends: it returned result, it ran to its end (fell), or it
\* threw error
Attempt(status, result, error) == [status |-> status, result |-> result, error |-> error]

\* the body of a try block (lines 143-164 after the candidate is cut, or 172-185)
\* on the text handed to JSON.parse
TryBody(raw) ==
    LET p == JSONParse(raw)
    IN  IF p.threw
        THEN Attempt("threw", NoResult, Thrown("SyntaxError", Chars("Unexpected token"), 152))
        ELSE IF ~Truthy(p.val) THEN Attempt("fell", NoResult, Pending)
        ELSE LET r == Reconcile(p.val)
             IN  IF r.threw
                 THEN Attempt("threw", NoResult, Thrown("TypeError", Chars("not iterable"), 156))
                 ELSE Attempt("returned", r.result, Pending)

\* Catch, were the clause to rethrow what it caught
CatchRethrows(t) == t

\* the empty catch clauses of lines 165-167 and 186-188
Catch(t) == IF t.status = "threw" THEN Attempt("fell", NoResult, Pending) ELSE t

\* one try statement (lines 142-167 or 170-188)
TryStructured(raw) == Catch(TryBody(raw))

\* botReply.split(/\r?\n/) from position i: the separator is a line feed and the
\* carriage return before it, if any
RECURSIVE SplitLines(_, _)
SplitLines(s, i) ==
    LET feeds == {j \in i..Len(s) : s[j] = "\n"}
    IN  IF feeds = {} THEN <<From(s, i)>>
        ELSE LET j == Min(feeds)
                 e == IF j > i /\ s[j - 1] = "\r" THEN j - 2 ELSE j - 1
             IN  <<SubSeq(s, i, e)>> \o SplitLines(s, j + 1)

\* Array.prototype.filter(Boolean) on texts
NonEmpty(ss) == SelectSeq(ss, LAMBDA x : x # <<>>)

\* line 192
ReplyLines(botReply) ==
    LET parts == SplitLines(botReply, 1)
    IN  NonEmpty([i \in 1..Len(parts) |-> trim(parts[i])])

\* lines 198 and 200: line.replace of a leading c and the white space after it
StripLead(line, c) ==
    IF Len(line) >= 1 /\ line[1] = c THEN From(line, SkipWs(line, 2)) ELSE line

\* IsPositiveLine, were the word positive not tested
IsPositiveLineBySign(line) ==
    LET l == toLowerCase(line)
    IN  startsWith(l, Chars("+")) \/ includes(l, Chars("strength"))

\* line 197
IsPositiveLine(line) ==
    LET l == toLowerCase(line)
    IN  startsWith(l, Chars("positive")) \/ startsWith(l, Chars("+")) \/ includes(l, Chars("strength"))

\* line 199
IsNegativeLine(line) ==
    LET l == toLowerCase(line)
    IN  \/ startsWith(l, Chars("negative"))
        \/ startsWith(l, Chars("-"))
        \/ includes(l, Chars("improv"))
        \/ includes(l, Chars("weak"))

\* Positives, were either sign taken off a strength
RECURSIVE PositivesWithoutAnySign(_)
PositivesWithoutAnySign(lines) ==
    IF lines = <<>> THEN <<>>
    ELSE IF IsPositiveLine(Head(lines))
         THEN <<Str(StripLead(StripLead(Head(lines), "+"), "-"))>>
              \o PositivesWithoutAnySign(Tail(lines))
    ELSE PositivesWithoutAnySign(Tail(lines))

\* the loop of lines 195-202: the entries pushed to positives
RECURSIVE Positives(_)
Positives(lines) ==
    IF lines = <<>> THEN <<>>
    ELSE IF IsPositiveLine(Head(lines))
         THEN <<Str(StripLead(Head(lines), "+"))>> \o Positives(Tail(lines))
    ELSE Positives(Tail(lines))

\* Negatives, were the second test an if of its own instead of an else if
RECURSIVE NegativesWithoutElse(_)
NegativesWithoutElse(lines) ==
    IF lines = <<>> THEN <<>>
    ELSE IF IsNegativeLine(Head(lines))
         THEN <<Str(StripLead(Head(lines), "-"))>> \o NegativesWithoutElse(Tail(lines))
    ELSE NegativesWithoutElse(Tail(lines))

\* the loop of lines 195-202: the entries pushed to negatives
RECURSIVE Negatives(_)
Negatives(lines) ==
    IF lines = <<>> THEN <<>>
    ELSE IF ~IsPositiveLine(Head(lines)) /\ IsNegativeLine(Head(lines))
         THEN <<Str(StripLead(Head(lines), "-"))>> \o Negatives(Tail(lines))
    ELSE Negatives(Tail(lines))

\* Heuristic, were the single entry the trimmed reply
HeuristicTrimsEntry(botReply) ==
    LET lines == ReplyLines(botReply)
        pos   == Positives(lines)
        neg   == Negatives(lines)
    IN  AnalysisResult(IF pos = <<>> /\ neg = <<>> THEN Arr(<<Str(trim(botReply))>>) ELSE Arr(pos),
                       Arr(neg), Arr(<<>>), Undefined)

\* lines 191-206; the object returned has no grammar property
Heuristic(botReply) ==
    LET lines == ReplyLines(botReply)
        pos   == Positives(lines)
        neg   == Negatives(lines)
    IN  AnalysisResult(IF pos = <<>> /\ neg = <<>> THEN Arr(<<Str(botReply)>>) ELSE Arr(pos),
                       Arr(neg), Arr(<<>>), Undefined)

\* lines 139-206 on a string botReply: what the call settles to, the tier
\* naming the return statement (line 163, 184 or 206)
Normalize(botReply) ==
    LET m == summaryMatch(botReply)
        t == IF m.found THEN TryStructured(MarkerCandidate(m.group))
             ELSE TryStructured(WholeCandidate(botReply))
    IN  CASE t.status = "returned" -> Returned(IF m.found THEN "marker" ELSE "whole", t.result)
          [] t.status = "threw" -> t.error
          [] OTHER -> Returned("heuristic", Heuristic(botReply))

(***************************************************************************)
(* buildEssayPrompt (EssayChecker.tsx lines 36-106)                       *)
(***************************************************************************)

\* the characters of the template that a TLA+ string literal cannot hold
EnDash == "endash"

LeftQuote == "ldquo"

RightQuote == "rdquo"

Ellipsis == "hellip"

\* the lines of the template literal of lines 37-105, before ${essayText}
PromptLines == <<
    Chars("You are an academic essay evaluation assistant that analyzes essays written in multiple ASEAN languages (such as English, Malay, Indonesian, Filipino, Thai, Vietnamese, Lao, Khmer, Burmese, etc.). Each language may have its own unique grammar, sentence structure, and academic writing style. Your task is to analyze the essay according to the following framework and provide feedback clearly and constructively."),
    <<>>,
    Chars("Framework to follow:"),
    Chars("1. Introduction"),
    Chars("- Does the essay have clear and relevant opening sentences?"),
    Chars("- Does it capture attention by (a) stating the importance of the subject, (b) mentioning previous work, or (c) pointing out the absence of work?"),
    Chars("- Is there a clearly focused thesis sentence relevant to the title?"),
    Chars("- Is there a plan of development that outlines the structure of the essay and signals how the ideas will unfold?"),
    <<>>,
    Chars("2. Body"),
    Chars("- Are the arguments developed in line with the plan of development?"),
    Chars("- Does each paragraph have a topic sentence?"),
    Chars("- Are there enough supporting details for each point?"),
    Chars("- Are illustrations and examples brief and to the point?"),
    Chars("- Are transitions smooth and signaled with appropriate discourse markers (e.g., \"in addition,\" \"furthermore,\" \"however\")?"),
    Chars("- Has the writer incorporated sources effectively (summary, paraphrase, short quotations)?"),
    Chars("- Are references acknowledged both in the text and at the end?"),
    <<>>,
    Chars("3. Conclusion"),
    Chars("- Does the conclusion restate and round off the main ideas?"),
    Chars("- Does it summarize the results/findings?"),
    Chars("- Does it provide comments, implications, or suggestions?"),
    <<>>,
    Chars("4. Grammar and Editing"),
    Chars("- Are tenses used correctly?"),
    Chars("- Do subjects and verbs agree?"),
    Chars("- Are clauses used correctly (e.g., avoiding ") \o <<LeftQuote>> \o Chars("although") \o <<Ellipsis>> \o Chars("but") \o <<RightQuote>> \o Chars(" in the same sentence)?"),
    Chars("- Is the vocabulary academic, precise, and formal?"),
    Chars("- Are nouns, pronouns, adjectives, adverbs, and verbs used appropriately for academic writing?"),
    Chars("- Is there a balance of sentence types (short/long, simple/complex)?"),
    Chars("- Are spelling, typing, and grammar errors avoided?"),
    Chars("- Are references formatted correctly?"),
    <<>>,
    Chars("Output Requirements:"),
    Chars("- Provide structured feedback under each section (Introduction, Body, Conclusion, Grammar & Editing)."),
    Chars("- Clearly separate Strengths, Weaknesses, and Suggestions."),
    Chars("- Highlight strengths and weaknesses with short quoted examples from the essay when relevant."),
    Chars("- Provide practical improvement suggestions in a constructive tone."),
    Chars("- If the essay is in a non-English ASEAN language, consider the unique grammar and academic conventions of that language when giving feedback and write your feedback in the same language as the essay whenever possible."),
    <<>>,
    Chars("Important: Also include a compact JSON summary for UI consumption, with this exact shape (MANDATORY ") \o <<EnDash>> \o Chars(" never omit any top-level key below):"),
    Chars("{"),
    Chars("  \"strengths\": string[],"),
    Chars("  \"weaknesses\": string[],"),
    Chars("  \"suggestions\": string[],"),
    Chars("  \"positiveFeedback\": string[],"),
    Chars("  \"negativeFeedback\": string[],"),
    Chars("  \"sections\": {"),
    Chars("    \"Introduction\": { \"strengths\": string[], \"weaknesses\": string[], \"suggestions\": string[] },"),
    Chars("    \"Body\": { \"strengths\": string[], \"weaknesses\": string[], \"suggestions\": string[] },"),
    Chars("    \"Conclusion\": { \"strengths\": string[], \"weaknesses\": string[], \"suggestions\": string[] },"),
    Chars("    \"GrammarEditing\": { \"strengths\": string[], \"weaknesses\": string[], \"suggestions\": string[] }"),
    Chars("  },"),
    Chars("  \"grammar\": {"),
    Chars("    \"overallScore\": number, // REQUIRED: integer 0") \o <<EnDash>> \o Chars("100 overall grammar quality"),
    Chars("    \"issues\": [ // REQUIRED: can be empty array if no errors; otherwise include concrete items"),
    Chars("      { \"type\": string, \"message\": string, \"sentence\": string, \"suggestion\": string }"),
    Chars("    ]"),
    Chars("  },"),
    Chars("  \"language\": string"),
    Chars("}"),
    Chars("Formatting rules for the JSON summary:"),
    Chars("- Do NOT wrap the JSON in code fences (no fenced code blocks)."),
    Chars("- Always include the keys exactly as shown above."),
    Chars("- Use a single line if possible. If multiple lines, still keep valid JSON."),
    <<>>,
    Chars("Always print the full narrative feedback first, then print a separate line that starts with EXACTLY: JSON_SUMMARY= and then the JSON object on the same line."),
    <<>>,
    Chars("Essay to analyze:"),
    <<>>,
    <<>>
>>

PromptInstructions == Join(PromptLines, <<"\n">>)

\* buildEssayPrompt, were the essay put before the instructions
buildEssayPromptEssayFirst(essayText) == essayText \o <<"\n", "\n">> \o PromptInstructions

buildEssayPrompt(essayText) == PromptInstructions \o essayText

(***************************************************************************)
(* analyzeEssaySecurely: the client (EssayChecker.tsx lines 109-135)      *)
(***************************************************************************)

\* what a template literal makes of a value (ToString of ECMA-262)
RECURSIVE JSToString(_)
JSToString(v) ==
    CASE v.t = "string" -> v.s
      [] v.t = "number" -> NumberToString(v.n)
      [] v.t = "boolean" -> IF v.b THEN Chars("true") ELSE Chars("false")
      [] v.t = "null" -> Chars("null")
      [] v.t = "undefined" -> Chars("undefined")
      [] v.t = "array" ->
            Join([i \in 1..Len(v.a) |->
                    IF v.a[i].t \in {"null", "undefined"} THEN <<>> ELSE JSToString(v.a[i])],
                 <<",">>)
      [] OTHER -> Chars("[object Object]")

\* line 113
ConfigurationErrorMessage ==
    Chars("VITE_ANALYSIS_API_URL is not set. Please set it to your API Gateway endpoint.")

\* line 134
MissingResponseMessage == Chars("Invalid response from Lambda: missing \"response\"")

\* the rejection of fetch() when the request cannot complete
FetchFailure == Thrown("TypeError", Chars("Failed to fetch"), 117)

\* lines 117-122: the request handed to fetch
Request(url, essayText) ==
    [url |-> url,
     method |-> "POST",
     contentType |-> "application/json",
     body |-> JSONStringify(Obj(<<Prop(Chars("message"), Str(buildEssayPrompt(essayText))),
                                  Prop(Chars("history"), Arr(<<>>))>>))]

\* Response.ok
Ok(status) == status >= 200 /\ status <= 299

\* line 124: resp.json().catch(() => null)
ResponseData(body) ==
    LET p == JSONParse(body) IN IF p.threw THEN Null ELSE p.val

\* lines 127-129: the message of the error raised for a status that is not ok
StatusErrorMessage(data, status, statusText) ==
    LET http    == Chars("HTTP ") \o NumberToString(status) \o Chars(": ") \o statusText
        errMsg  == Or(Or(Get(data, Chars("error")), Get(data, Chars("message"))), Str(http))
        details == IF Truthy(Get(data, Chars("details")))
                   THEN Chars(" Details: ") \o JSToString(Get(data, Chars("details")))
                   ELSE <<>>
    IN  JSToString(errMsg) \o details

\* lines 139-206 on the value of data?.response: match is a method of strings only
NormalizeReply(botReply) ==
    IF IsString(botReply) THEN Normalize(botReply.s)
    ELSE Thrown("TypeError", Chars("botReply.match is not a function"), 140)

\* Settled, were the response text looked for before the status
SettledReplyFirst(status, statusText, body) ==
    LET data     == ResponseData(body)
        botReply == Get(data, Chars("response"))
    IN  IF Truthy(botReply) THEN NormalizeReply(botReply)
        ELSE IF ~Ok(status)
             THEN Thrown("Error", StatusErrorMessage(data, status, statusText), 129)
        ELSE Thrown("Error", MissingResponseMessage, 134)

\* lines 124-206: what the call settles to once the response has arrived; the
\* catch of lines 208-211 rethrows what it caught
Settled(status, statusText, body) ==
    LET data     == ResponseData(body)
        botReply == Get(data, Chars("response"))
    IN  IF ~Ok(status) THEN Thrown("Error", StatusErrorMessage(data, status, statusText), 129)
        ELSE IF ~Truthy(botReply) THEN Thrown("Error", MissingResponseMessage, 134)
        ELSE NormalizeReply(botReply)

(***************************************************************************)
(* The inputs: the configuration, the essays, and what the endpoint may   *)
(* answer.  The response texts are the JSON texts of a family of values,  *)
(* each as the whole reply, behind the marker, fenced, or followed by     *)
(* narrative, and a family of plain prose.                                *)
(***************************************************************************)

\* the longest array of entries the endpoint's JSON holds
MaxEntries == 2

\* an array of n distinct one-word entries that start with the letter c
Entries(c, n) == Arr([i \in 1..n |-> Str(<<c, DigitChars[i + 1]>>)])

EntryArrays(c) == {Entries(c, n) : n \in 0..MaxEntries}

\* an object of the section's suggestions alone
Section(sugg) == Obj(<<Prop(Chars("suggestions"), sugg)>>)

SectionsAll ==
    Obj(<<Prop(Chars("Introduction"), Section(Entries("i", MaxEntries))),
          Prop(Chars("Body"), Section(Entries("b", 1))),
          Prop(Chars("Conclusion"), Section(Entries("c", MaxEntries))),
          Prop(Chars("GrammarEditing"), Section(Entries("e", 1)))>>)

\* the keys in another order than the code reads them, one section missing,
\* one without suggestions
SectionsShuffled ==
    Obj(<<Prop(Chars("GrammarEditing"), Section(Entries("e", MaxEntries))),
          Prop(Chars("Conclusion"), Obj(<<Prop(Chars("strengths"), Entries("x", 1))>>)),
          Prop(Chars("Introduction"), Section(Entries("i", 1)))>>)

SectionsPool ==
    {Undefined, SectionsAll, SectionsShuffled,
     Obj(<<Prop(Chars("Body"), Section(Num(5)))>>),
     Obj(<<Prop(Chars("Introduction"), Section(Entries("i", 1))),
           Prop(Chars("Conclusion"), Section(Obj(<<>>)))>>),
     Obj(<<Prop(Chars("Introduction"), Section(Str(Chars("ab")))),
           Prop(Chars("Body"), Null)>>),
     Str(Chars("none")),
     Obj(<<>>)}

\* values of another shape than the array of strings the field should hold
WrongShapes == {Null, Bool(FALSE), Num(0), Num(5), Str(<<>>), Str(Chars("great")), Obj(<<>>),
                Arr(<<Num(1)>>)}

GrammarPool ==
    {Undefined,
     Obj(<<Prop(Chars("overallScore"), Num(82)), Prop(Chars("issues"), Arr(<<>>))>>),
     Obj(<<Prop(Chars("issues"),
               Arr(<<Obj(<<Prop(Chars("type"), Str(Chars("Tense"))),
                           Prop(Chars("suggestion"), Str(Chars("use was")))>>)>>))>>),
     Str(Chars("good")), Num(0), Null}

\* an object of the four listed keys; a key whose value is undefined is left out
\* of its JSON text
TwoKeys(k1, v1, k2, v2) == Obj(<<Prop(Chars(k1), v1), Prop(Chars(k2), v2)>>)

StrengthObjects ==
    {TwoKeys("strengths", a, "positiveFeedback", b) :
        a \in {Undefined} \cup EntryArrays("s") \cup WrongShapes,
        b \in {Undefined, Entries("p", 1), Str(Chars("fine"))}}

WeaknessObjects ==
    {TwoKeys("negativeFeedback", b, "weaknesses", a) :
        a \in {Undefined, Null, Str(Chars("bad"))} \cup EntryArrays("w"),
        b \in {Undefined, Entries("n", MaxEntries)}}

SuggestionObjects ==
    {TwoKeys("sections", b, "suggestions", a) :
        a \in {Undefined, Null, Num(7), Entries("g", 0), Entries("g", 1)},
        b \in SectionsPool}

GrammarObjects ==
    {TwoKeys("strengths", Entries("s", 1), "grammar", g) : g \in GrammarPool}

\* entries that hold the marker
MarkerObjects ==
    {Obj(<<Prop(Chars("strengths"), Arr(<<Str(Chars("see JSON_SUMMARY= below"))>>))>>),
     Obj(<<Prop(Chars("weaknesses"), Arr(<<Str(Chars("no json_summary: {x}"))>>)),
           Prop(Chars("suggestions"), Entries("g", 1))>>)}

\* the object the prompt asks for
FullObject ==
    Obj(<<Prop(Chars("strengths"), Arr(<<Str(Chars("clear thesis"))>>)),
          Prop(Chars("weaknesses"), Arr(<<>>)),
          Prop(Chars("suggestions"), Arr(<<>>)),
          Prop(Chars("positiveFeedback"), Entries("p", 1)),
          Prop(Chars("negativeFeedback"), Entries("n", 1)),
          Prop(Chars("sections"), SectionsAll),
          Prop(Chars("grammar"),
               Obj(<<Prop(Chars("overallScore"), Num(82)), Prop(Chars("issues"), Arr(<<>>))>>)),
          Prop(Chars("language"), Str(Chars("English")))>>)

\* the JSON values whose texts the endpoint may send
ParsedPool ==
    StrengthObjects \cup WeaknessObjects \cup SuggestionObjects \cup GrammarObjects
    \cup MarkerObjects
    \cup {FullObject, Null, Bool(TRUE), Num(0), Num(5), Str(Chars("fine")), Arr(<<Num(1)>>)}

\* the ways a JSON text j is laid out in the reply
Layouts(j) ==
    {j,
     Fence \o Chars("json\n") \o j \o Chars("\n") \o Fence,
     Chars("Great essay.\nJSON_SUMMARY= ") \o j,
     Chars("JSON_SUMMARY=\n") \o Fence \o Chars("json\n") \o j \o Chars(" \nThanks!\n") \o Fence,
     Chars("Feedback\njson_summary : ") \o j \o Chars(" Thanks {friend}")}

\* replies that hold no JSON, or JSON that does not parse
ProseReplies ==
    {Chars("Positive: good structure\nNegative: weak conclusion\nrandom line"),
     Chars("This essay needs work."),
     Chars("+ nice flow\r\n-  bad ending\n\n - strength in the body"),
     Chars("Needs improvement\n+Good\nok"),
     Chars("JSON_SUMMARY= {\"strengths\":[\"s1\"}"),
     Chars("JSON_SUMMARY: not json"),
     Chars("JSON_SUMMARY= }5{"),
     Chars("{\"strengths\":[\"s1\",]}"),
     Chars(" \n ")}

Replies == UNION {Layouts(JSONStringify(p)) : p \in ParsedPool} \cup ProseReplies

\* the bodies the endpoint may send: the envelope of a reply, and others
Envelope(reply) == JSONStringify(Obj(<<Prop(Chars("response"), Str(reply))>>))

OtherData ==
    {Null, Num(5), Str(Chars("down")), Obj(<<>>),
     Obj(<<Prop(Chars("response"), Num(5))>>),
     Obj(<<Prop(Chars("response"), Num(0))>>),
     Obj(<<Prop(Chars("response"), Str(<<>>))>>),
     Obj(<<Prop(Chars("response"), Null)>>),
     Obj(<<Prop(Chars("response"), Arr(<<Str(Chars("{}"))>>))>>),
     Obj(<<Prop(Chars("response"), Obj(<<Prop(Chars("strengths"), Entries("s", 1))>>))>>),
     Obj(<<Prop(Chars("error"), Str(Chars("quota exceeded")))>>),
     Obj(<<Prop(Chars("message"), Str(Chars("Forbidden")))>>),
     Obj(<<Prop(Chars("error"), Str(Chars("boom"))), Prop(Chars("message"), Str(Chars("m"))),
           Prop(Chars("details"), Str(Chars("stack")))>>),
     Obj(<<Prop(Chars("error"), Str(<<>>)), Prop(Chars("message"), Str(Chars("Forbidden")))>>),
     Obj(<<Prop(Chars("details"), Num(42))>>),
     Obj(<<Prop(Chars("error"), Obj(<<Prop(Chars("code"), Num(1))>>)),
           Prop(Chars("details"), Arr(<<Str(Chars("a")), Null, Num(2)>>))>>),
     Obj(<<Prop(Chars("error"), Str(Chars("late"))),
           Prop(Chars("response"), Str(Chars("This essay needs work.")))>>)}

Bodies ==
    {Envelope(r) : r \in Replies} \cup {JSONStringify(d) : d \in OtherData}
    \cup {Chars("<html>Bad Gateway</html>"), <<>>}

\* status and statusText of the answers
Statuses ==
    {[status |-> 200, statusText |-> Chars("OK")],
     [status |-> 404, statusText |-> Chars("Not Found")],
     [status |-> 500, statusText |-> Chars("Internal Server Error")]}

\* import.meta.env.VITE_ANALYSIS_API_URL: unset, empty, or an endpoint
Endpoints == {Undefined, Str(<<>>), Str(Chars("https://api.example/analyze"))}

\* the essays: one line, and lines with white space around them that hold the marker
Essays == {Chars("The right to vote."), Chars(" Essay two\nJSON_SUMMARY= {}\n")}

(***************************************************************************)
(* Dashboard (Dashboard.tsx lines 33-142): the values of its state and of  *)
(* localStorage.                                                           *)
(***************************************************************************)

\* the memo pictograph of lines 63, 70 and 100, which a TLA+ string literal
\* cannot hold
Memo == "memo"

\* an Assignment (lines 25-31), its keys in the order of the object literals
Assignment(id, title, description, language) ==
    Obj(<<Prop(Chars("id"), Str(id)), Prop(Chars("title"), Str(title)),
          Prop(Chars("description"), Str(description)), Prop(Chars("language"), Str(language)),
          Prop(Chars("icon"), Str(<<Memo>>))>>)

\* lines 58-73
seed ==
    Arr(<<Assignment(Chars("1"), Chars("Essay Assignment"),
                     Chars("Write your opinion on if should prisoners have the right to vote?"),
                     Chars("English")),
          Assignment(Chars("2"), Chars("Penulisan"),
                     Chars("Apakah peranan ibu bapa dan keluarga dalam mengatasi dan menangani masalah sosial?"),
                     Chars("Bahasa Melayu"))>>)

\* the form of the dialog (line 38)
Form(title, description, language, customLanguage) ==
    [title |-> title, description |-> description, language |-> language,
     customLanguage |-> customLanguage]

\* lines 38 and 91
EmptyForm == Form(<<>>, <<>>, <<>>, <<>>)

\* line 45
InitialProfile == Obj(<<Prop(Chars("username"), Str(Chars("dinoTeacher")))>>)

\* what the user may have typed into the dialog: a title alone, a title of white
\* space, and every field filled, with quotes, a line feed and white space around
Forms ==
    {Form(Chars("Essay"), <<>>, <<>>, <<>>),
     Form(Chars("  "), Chars("no title"), Chars("English"), <<>>),
     Form(Chars(" Lab \"2\" "), Chars("a\nb "), Chars("other"), Chars(" Tamil "))}

\* the longest list of assignments the user builds
MaxAssignments == 3

\* the readings of Date.now() after the first
MaxTicks == 1

\* localStorage: the keys that are set, each with its text
NoStorage == [k \in {} |-> <<>>]

\* localStorage.getItem(k)
getItem(ls, k) == IF k \in DOMAIN ls THEN Str(ls[k]) ELSE Null

\* localStorage.setItem(k, v)
setItem(ls, k, v) == [x \in DOMAIN ls \cup {k} |-> IF x = k THEN v ELSE ls[x]]

\* localStorage.removeItem(k)
removeItem(ls, k) == [x \in DOMAIN ls \ {k} |-> ls[x]]

(***************************************************************************)
(* One invocation of analyzeEssaySecurely at a time, as the Analyze        *)
(* button allows: the call, the answer of the network, the settling.      *)
(***************************************************************************)

VARIABLES
    apiGatewayUrl,  \* import.meta.env.VITE_ANALYSIS_API_URL
    pc,             \* where the invocation stands: idle, fetch, json, done
    essay,          \* essayText of the invocation
    requests,       \* the requests handed to fetch by the invocation
    resp,           \* the Response fetch resolved with
    outcome,        \* what the promise of the invocation settled to
    calls,          \* invocations a caller lets overlap: each one's pc, essay, resp, outcome
    wire,           \* the requests the overlapping invocations handed to fetch, in order
    mounted,        \* the Dashboard is on the page
    assignments,    \* Dashboard state (line 36)
    open,           \* Dashboard state (line 37): the dialog is open
    form,           \* Dashboard state (line 38)
    profile,        \* Dashboard state (line 45)
    localStorage,   \* window.localStorage
    now,            \* the reading of Date.now()
    readers,        \* the FileReaders of handleAvatarChange that have not loaded yet
    checker         \* EssayChecker state (lines 217-232)

vars == <<apiGatewayUrl, pc, essay, requests, resp, outcome, calls, wire,
          mounted, assignments, open, form, profile, localStorage, now, readers, checker>>

\* the state of the one invocation, of the Dashboard page, and the state outside each
callVars == <<pc, essay, requests, resp, outcome>>

pageVars == <<mounted, assignments, open, form, profile, localStorage, now, readers>>

outsideCall == <<calls, wire, pageVars, checker>>

outsidePage == <<apiGatewayUrl, callVars, calls, wire, checker>>

\* the essay the page opens with (lines 217-223), cut to its subject
DefaultEssay == Chars("The right to vote.")

\* lines 217-232
InitialChecker ==
    [essay |-> DefaultEssay, strengths |-> Arr(<<>>), weaknesses |-> Arr(<<>>),
     suggestions |-> Arr(<<>>), grammarSummary |-> Obj(<<>>), isAnalyzing |-> FALSE,
     error |-> Null, hasAnalyzed |-> FALSE]

NoResponse == [status |-> 0, statusText |-> <<>>, body |-> <<>>]

\* the invocations of the caller that does not wait
Invocations == {1, 2}

\* an invocation not made yet: the locals of lines 111-132 are its own
NotCalled == [pc |-> "idle", essay |-> <<>>, resp |-> NoResponse, outcome |-> Pending]

Init ==
    /\ apiGatewayUrl \in Endpoints
    /\ pc = "idle"
    /\ essay = <<>>
    /\ requests = <<>>
    /\ resp = NoResponse
    /\ outcome = Pending
    /\ calls = [i \in Invocations |-> NotCalled]
    /\ wire = <<>>
    /\ mounted = FALSE
    /\ assignments = Arr(<<>>)
    /\ open = FALSE
    /\ form = EmptyForm
    /\ profile = InitialProfile
    /\ localStorage = NoStorage
    /\ now = 1000   \* a reading of the clock, far from the ids of the seed
    /\ readers = <<>>
    /\ checker = InitialChecker

\* Call, were only an unset endpoint refused
CallUnsetOnly(essayText) ==
    /\ pc = "idle"
    /\ essay' = essayText
    /\ IF apiGatewayUrl = Undefined
       THEN /\ outcome' = Thrown("Error", ConfigurationErrorMessage, 113)
            /\ pc' = "done"
            /\ UNCHANGED requests
       ELSE /\ requests' = Append(requests, Request(apiGatewayUrl.s, essayText))
            /\ pc' = "fetch"
            /\ UNCHANGED outcome
    /\ UNCHANGED <<apiGatewayUrl, resp>>
    /\ UNCHANGED outsideCall

\* lines 109-122: the call, up to the await of fetch
Call(essayText) ==
    /\ pc = "idle"
    /\ essay' = essayText
    /\ IF ~Truthy(apiGatewayUrl)
       THEN /\ outcome' = Thrown("Error", ConfigurationErrorMessage, 113)
            /\ pc' = "done"
            /\ UNCHANGED requests
       ELSE /\ requests' = Append(requests, Request(apiGatewayUrl.s, essayText))
            /\ pc' = "fetch"
            /\ UNCHANGED outcome
    /\ UNCHANGED <<apiGatewayUrl, resp>>
    /\ UNCHANGED outsideCall

\* FetchRejects, were a failed request sent once more
FetchRejectsRetries ==
    /\ pc = "fetch"
    /\ IF Len(requests) < 2
       THEN /\ requests' = Append(requests, requests[Len(requests)])
            /\ UNCHANGED <<pc, outcome>>
       ELSE /\ outcome' = FetchFailure
            /\ pc' = "done"
            /\ UNCHANGED requests
    /\ UNCHANGED <<apiGatewayUrl, essay, resp>>
    /\ UNCHANGED outsideCall

\* line 117: fetch rejects; lines 208-211 rethrow
FetchRejects ==
    /\ pc = "fetch"
    /\ outcome' = FetchFailure
    /\ pc' = "done"
    /\ UNCHANGED <<apiGatewayUrl, essay, requests, resp>>
    /\ UNCHANGED outsideCall

\* line 117: fetch resolves with the endpoint's answer
FetchResolves(st, body) ==
    /\ pc = "fetch"
    /\ resp' = [status |-> st.status, statusText |-> st.statusText, body |-> body]
    /\ pc' = "json"
    /\ UNCHANGED <<apiGatewayUrl, essay, requests, outcome>>
    /\ UNCHANGED outsideCall

\* lines 124-206: the body is read and the call settles
Settle ==
    /\ pc = "json"
    /\ outcome' = Settled(resp.status, resp.statusText, resp.body)
    /\ pc' = "done"
    /\ UNCHANGED <<apiGatewayUrl, essay, requests, resp>>
    /\ UNCHANGED outsideCall

\* the caller has the outcome; the next invocation starts afresh
Finish ==
    /\ pc = "done"
    /\ pc' = "idle"
    /\ essay' = <<>>
    /\ requests' = <<>>
    /\ resp' = NoResponse
    /\ outcome' = Pending
    /\ UNCHANGED apiGatewayUrl
    /\ UNCHANGED outsideCall

Next ==
    \/ \E e \in Essays : Call(e)
    \/ FetchRejects
    \/ \E st \in Statuses, b \in Bodies : FetchResolves(st, b)
    \/ Settle
    \/ Finish

Spec == Init /\ [][Next]_vars

(***************************************************************************)
(* Invocations that overlap: analyzeEssaySecurely is a module-level        *)
(* function whose state is its locals, so a caller that does not wait for  *)
(* one call may start the next. The network answers each request on its    *)
(* own.                                                                    *)
(***************************************************************************)

\* what the network did with a request
Unanswered == [kind |-> "unanswered"]

Rejected == [kind |-> "rejected"]

Answered(r) == [kind |-> "answered", resp |-> r]

\* the bodies the endpoint answers the overlapping invocations with
OverlapBodies ==
    {Envelope(Chars("Great essay.\nJSON_SUMMARY= ") \o JSONStringify(FullObject)),
     Envelope(Chars("This essay needs work.")),
     JSONStringify(Obj(<<Prop(Chars("error"), Str(Chars("quota exceeded")))>>)),
     JSONStringify(Obj(<<Prop(Chars("response"), Num(5))>>)),
     <<>>}

\* the wire with the request of invocation i answered by a
AnswerTo(i, a) ==
    [k \in DOMAIN wire |-> IF wire[k].by = i THEN [wire[k] EXCEPT !.answer = a] ELSE wire[k]]

\* Invoke, were a call made while another is in flight to share that one's request
InvokeSingleFlight(i, essayText) ==
    /\ calls[i].pc = "idle"
    /\ IF ~Truthy(apiGatewayUrl)
       THEN /\ calls' = [calls EXCEPT ![i] =
                            [@ EXCEPT !.essay = essayText, !.pc = "done",
                                      !.outcome = Thrown("Error", ConfigurationErrorMessage, 113)]]
            /\ UNCHANGED wire
       ELSE /\ calls' = [calls EXCEPT ![i] = [@ EXCEPT !.essay = essayText, !.pc = "fetch"]]
            /\ IF \E j \in Invocations : calls[j].pc \in {"fetch", "json"}
               THEN UNCHANGED wire
               ELSE wire' = Append(wire, [by |-> i, request |-> Request(apiGatewayUrl.s, essayText),
                                          answer |-> Unanswered])
    /\ UNCHANGED <<apiGatewayUrl, callVars, pageVars, checker>>

\* lines 109-122 for invocation i: the call, up to the await of fetch
Invoke(i, essayText) ==
    /\ calls[i].pc = "idle"
    /\ IF ~Truthy(apiGatewayUrl)
       THEN /\ calls' = [calls EXCEPT ![i] =
                            [@ EXCEPT !.essay = essayText, !.pc = "done",
                                      !.outcome = Thrown("Error", ConfigurationErrorMessage, 113)]]
            /\ UNCHANGED wire
       ELSE /\ calls' = [calls EXCEPT ![i] = [@ EXCEPT !.essay = essayText, !.pc = "fetch"]]
            /\ wire' = Append(wire, [by |-> i, request |-> Request(apiGatewayUrl.s, essayText),
                                     answer |-> Unanswered])
    /\ UNCHANGED <<apiGatewayUrl, callVars, pageVars, checker>>

\* line 117 for invocation i: its fetch rejects; lines 208-211 rethrow
Rejects(i) ==
    /\ calls[i].pc = "fetch"
    /\ calls' = [calls EXCEPT ![i] = [@ EXCEPT !.outcome = FetchFailure, !.pc = "done"]]
    /\ wire' = AnswerTo(i, Rejected)
    /\ UNCHANGED <<apiGatewayUrl, callVars, pageVars, checker>>

\* line 117 for invocation i: its fetch resolves with the endpoint's answer
Resolves(i, st, body) ==
    LET r == [status |-> st.status, statusText |-> st.statusText, body |-> body]
    IN  /\ calls[i].pc = "fetch"
        /\ calls' = [calls EXCEPT ![i] = [@ EXCEPT !.resp = r, !.pc = "json"]]
        /\ wire' = AnswerTo(i, Answered(r))
        /\ UNCHANGED <<apiGatewayUrl, callVars, pageVars, checker>>

\* lines 124-206 for invocation i: the body is read and the call settles
Settles(i) ==
    /\ calls[i].pc = "json"
    /\ calls' = [calls EXCEPT ![i] =
                    [@ EXCEPT !.outcome = Settled(calls[i].resp.status, calls[i].resp.statusText,
                                                  calls[i].resp.body),
                              !.pc = "done"]]
    /\ UNCHANGED <<apiGatewayUrl, callVars, wire, pageVars, checker>>

NextOverlap ==
    \/ \E i \in Invocations, e \in Essays : Invoke(i, e)
    \/ \E i \in Invocations : Rejects(i)
    \/ \E i \in Invocations, st \in Statuses, b \in OverlapBodies : Resolves(i, st, b)
    \/ \E i \in Invocations : Settles(i)

SpecOverlap == Init /\ [][NextOverlap]_vars

(***************************************************************************)
(* The Dashboard page: it mounts and leaves, the dialog is opened, filled, *)
(* cancelled and saved, assignments are deleted, the clock goes on.       *)
(***************************************************************************)

\* persisted, were the list kept in the state of the component alone
persistedNowhere(ls, list) == ls

\* line 88: localStorage after persist(list)
persisted(ls, list) == setItem(ls, Chars("assignments"), JSONStringify(list))

\* Mount, were the examples written whenever no assignment is stored
MountSeedsWhenEmpty ==
    /\ ~mounted
    /\ LET stored == getItem(localStorage, Chars("assignments"))
           none   == \/ ~Truthy(stored)
                     \/ JSONParse(stored.s).threw
                     \/ JSONParse(stored.s).val = Arr(<<>>)
           seeded == IF none
                     THEN setItem(localStorage, Chars("assignments"), JSONStringify(seed))
                     ELSE localStorage
           storedProfile == getItem(seeded, Chars("user_profile"))
       IN  /\ assignments' = IF none THEN seed ELSE JSONParse(stored.s).val
           /\ localStorage' = seeded
           /\ profile' = IF Truthy(storedProfile) /\ ~JSONParse(storedProfile.s).threw
                         THEN JSONParse(storedProfile.s).val
                         ELSE profile
    /\ mounted' = TRUE
    /\ UNCHANGED <<open, form, now, readers, outsidePage>>

\* lines 47-83: the effect of the first render, run on the initial state
Mount ==
    /\ ~mounted
    /\ LET stored == getItem(localStorage, Chars("assignments"))
           seeded == IF Truthy(stored) THEN localStorage
                     ELSE setItem(localStorage, Chars("assignments"), JSONStringify(seed))
           storedProfile == getItem(seeded, Chars("user_profile"))
       IN  /\ assignments' = IF ~Truthy(stored) THEN seed
                             ELSE IF JSONParse(stored.s).threw THEN assignments
                             ELSE JSONParse(stored.s).val
           /\ localStorage' = seeded
           /\ profile' = IF Truthy(storedProfile) /\ ~JSONParse(storedProfile.s).threw
                         THEN JSONParse(storedProfile.s).val
                         ELSE profile
    /\ mounted' = TRUE
    /\ UNCHANGED <<open, form, now, readers, outsidePage>>

\* the page is left (lines 109-111, or a reload): the state of the component is
\* gone, the next mount starts from the initial values of lines 36-45
Unmount ==
    /\ mounted
    /\ mounted' = FALSE
    /\ assignments' = Arr(<<>>)
    /\ open' = FALSE
    /\ form' = EmptyForm
    /\ profile' = InitialProfile
    /\ UNCHANGED <<localStorage, now, readers, outsidePage>>

\* line 246: the Add Assignment button
OpenDialog ==
    /\ mounted
    /\ ~open
    /\ open' = TRUE
    /\ UNCHANGED <<mounted, assignments, form, profile, localStorage, now, readers, outsidePage>>

\* lines 331-358: the user has typed f into the fields of the dialog
FillForm(f) ==
    /\ mounted
    /\ open
    /\ form' = f
    /\ UNCHANGED <<mounted, assignments, open, profile, localStorage, now, readers, outsidePage>>

\* line 363: the Cancel button
CancelDialog ==
    /\ mounted
    /\ open
    /\ open' = FALSE
    /\ form' = EmptyForm
    /\ UNCHANGED <<mounted, assignments, profile, localStorage, now, readers, outsidePage>>

\* line 95
chosenLanguage(f) ==
    IF f.language = Chars("other") /\ trim(f.customLanguage) # <<>>
    THEN trim(f.customLanguage)
    ELSE IF f.language # <<>> THEN f.language ELSE Chars("English")

\* lines 96-102
newAssignment(f, clock) ==
    Assignment(NumberToString(clock), trim(f.title), trim(f.description), chosenLanguage(f))

\* lines 93-107: the Save button of the dialog
handleSave ==
    /\ mounted
    /\ open
    /\ Len(assignments.a) < MaxAssignments
    /\ IF trim(form.title) = <<>>
       THEN UNCHANGED <<assignments, localStorage, open, form>>
       ELSE LET next == Arr(assignments.a \o <<newAssignment(form, now)>>)
            IN  /\ assignments' = next
                /\ localStorage' = persisted(localStorage, next)
                /\ open' = FALSE
                /\ form' = EmptyForm
    /\ UNCHANGED <<mounted, profile, now, readers, outsidePage>>

\* handleDeleteAssignment, were the first assignment of that id alone removed
handleDeleteAssignmentFirstOnly(assignmentId) ==
    /\ mounted
    /\ \E i \in DOMAIN assignments.a : Get(assignments.a[i], Chars("id")) = Str(assignmentId)
    /\ LET hit  == Min({i \in DOMAIN assignments.a :
                            Get(assignments.a[i], Chars("id")) = Str(assignmentId)})
           next == Arr(SubSeq(assignments.a, 1, hit - 1)
                       \o SubSeq(assignments.a, hit + 1, Len(assignments.a)))
       IN  /\ assignments' = next
           /\ localStorage' = removeItem(persisted(localStorage, next),
                                         Chars("assignment_students_") \o assignmentId)
    /\ UNCHANGED <<mounted, open, form, profile, now, readers, outsidePage>>

\* lines 113-118: Delete on the card of the assignment with this id
handleDeleteAssignment(assignmentId) ==
    /\ mounted
    /\ \E i \in DOMAIN assignments.a : Get(assignments.a[i], Chars("id")) = Str(assignmentId)
    /\ LET next == Arr(SelectSeq(assignments.a,
                                 LAMBDA a : Get(a, Chars("id")) # Str(assignmentId)))
       IN  /\ assignments' = next
           /\ localStorage' = removeItem(persisted(localStorage, next),
                                         Chars("assignment_students_") \o assignmentId)
    /\ UNCHANGED <<mounted, open, form, profile, now, readers, outsidePage>>

\* time passes: the next Date.now() reads a millisecond later
Tick ==
    /\ now < 1000 + MaxTicks
    /\ now' = now + 1
    /\ UNCHANGED <<mounted, assignments, open, form, profile, localStorage, readers, outsidePage>>

\* the ids a Delete button can be given
Ids == {Chars("1"), Chars("2")} \cup {NumberToString(c) : c \in 1000..(1000 + MaxTicks)}

NextDashboard ==
    \/ Mount
    \/ Unmount
    \/ OpenDialog
    \/ \E f \in Forms : FillForm(f)
    \/ CancelDialog
    \/ handleSave
    \/ \E id \in Ids : handleDeleteAssignment(id)
    \/ Tick

SpecDashboard == Init /\ [][NextDashboard]_vars

(***************************************************************************)
(* The page of one assignment, reached from its card (line 110), keeps the *)
(* students of the assignment in localStorage["assignment_students_<id>"] *)
(* (README.md, Persistence). The page is not among the sources: what it    *)
(* writes is taken from the README.                                        *)
(***************************************************************************)

\* the key of the students of an assignment (line 117)
StudentsKey(id) == Chars("assignment_students_") \o id

\* the student data the assignment page stores
StudentData == Chars("[{\"name\":\"Ali\"}]")

\* the ids of the assignments in the list stored in ls
StoredIdsOf(ls) ==
    IF Chars("assignments") \in DOMAIN ls
       /\ ~JSONParse(ls[Chars("assignments")]).threw
       /\ IsArray(JSONParse(ls[Chars("assignments")]).val)
    THEN LET list == JSONParse(ls[Chars("assignments")]).val.a
         IN  {Get(list[i], Chars("id")).s : i \in DOMAIN list}
    ELSE {}

\* the ids of the assignments in the stored list
StoredIds == StoredIdsOf(localStorage)

\* the page of the assignment with this id stores its students
StudentsSaved(id) ==
    /\ ~mounted
    /\ id \in StoredIds
    /\ localStorage' = setItem(localStorage, StudentsKey(id), StudentData)
    /\ UNCHANGED <<mounted, assignments, open, form, profile, now, readers, outsidePage>>

\* the clock stands still here, so that saves share a reading and an id
NextStudents ==
    \/ Mount
    \/ Unmount
    \/ OpenDialog
    \/ \E f \in Forms : FillForm(f)
    \/ handleSave
    \/ \E id \in Ids : handleDeleteAssignment(id)
    \/ \E id \in Ids : StudentsSaved(id)

SpecStudents == Init /\ [][NextStudents]_vars

(***************************************************************************)
(* The profile of the Dashboard (lines 123-137): the username is edited    *)
(* and avatar files are chosen while the page stays on; each file is read  *)
(* by a FileReader of its own, whose onload runs when the file is read.    *)
(***************************************************************************)

\* the names typed into the username field (line 395)
Usernames == {Chars("Ana"), Chars("Ben")}

\* the files chosen for the avatar (line 387): the type and the bytes in base64
Files ==
    {[type |-> Chars("image/png"), base64 |-> Chars("iVBO")],
     [type |-> Chars("image/jpeg"), base64 |-> Chars("/9j/")]}

\* reader.result after readAsDataURL(file) (lines 126 and 130)
DataURL(file) == Chars("data:") \o file.type \o Chars(";base64,") \o file.base64

\* the FileReaders that may be reading at one time
MaxReaders == 2

\* { ...p, k: v } (lines 126 and 134)
With(p, k, v) ==
    IF HasKey(p, k)
    THEN Obj([i \in DOMAIN p.o |-> IF p.o[i].k = k THEN Prop(k, v) ELSE p.o[i]])
    ELSE Obj(Append(p.o, Prop(k, v)))

\* lines 133-137: the username field changes to name
handleUsernameChange(name) ==
    /\ mounted
    /\ LET next == With(profile, Chars("username"), Str(name))
       IN  /\ profile' = next
           /\ localStorage' = setItem(localStorage, Chars("user_profile"), JSONStringify(next))
    /\ UNCHANGED <<mounted, assignments, open, form, now, readers, outsidePage>>

\* lines 123-125 and 130: a file is chosen; the reader starts, and its onload
\* holds the profile of the render in which the file was chosen
handleAvatarChange(file) ==
    /\ mounted
    /\ Len(readers) < MaxReaders
    /\ readers' = Append(readers, [profile |-> profile, result |-> DataURL(file)])
    /\ UNCHANGED <<mounted, assignments, open, form, profile, localStorage, now, outsidePage>>

\* lines 125-129: reader i has read its file and its onload runs
onload(i) ==
    /\ mounted
    /\ i \in DOMAIN readers
    /\ LET next == With(readers[i].profile, Chars("avatarDataUrl"), Str(readers[i].result))
       IN  /\ profile' = next
           /\ localStorage' = setItem(localStorage, Chars("user_profile"), JSONStringify(next))
    /\ readers' = SubSeq(readers, 1, i - 1) \o SubSeq(readers, i + 1, Len(readers))
    /\ UNCHANGED <<mounted, assignments, open, form, now, outsidePage>>

NextProfile ==
    \/ Mount
    \/ \E name \in Usernames : handleUsernameChange(name)
    \/ \E file \in Files : handleAvatarChange(file)
    \/ \E i \in 1..MaxReaders : onload(i)

SpecProfile == Init /\ [][NextProfile]_vars

(***************************************************************************)
(* The EssayChecker page (lines 214-278): the essay is typed, the Analyze  *)
(* button runs handleAnalyze, which awaits one call of                     *)
(* analyzeEssaySecurely and resumes when the call has settled.             *)
(***************************************************************************)

\* what the essay field may hold (line 347): the essays, nothing, white space
EssayTexts == Essays \cup {<<>>, Chars(" \n")}

\* line 347: the essay field changes to text
setEssay(text) ==
    /\ checker' = [checker EXCEPT !.essay = text]
    /\ UNCHANGED <<apiGatewayUrl, callVars, calls, wire, pageVars>>

\* handleAnalyze, were the essay not tested before the call
handleAnalyzeUntested ==
    /\ ~checker.isAnalyzing
    /\ pc = "idle"
    /\ checker' = [checker EXCEPT !.isAnalyzing = TRUE, !.error = Null]
    /\ essay' = checker.essay
    /\ IF ~Truthy(apiGatewayUrl)
       THEN /\ outcome' = Thrown("Error", ConfigurationErrorMessage, 113)
            /\ pc' = "done"
            /\ UNCHANGED requests
       ELSE /\ requests' = Append(requests, Request(apiGatewayUrl.s, checker.essay))
            /\ pc' = "fetch"
            /\ UNCHANGED outcome
    /\ UNCHANGED resp
    /\ UNCHANGED <<apiGatewayUrl, calls, wire, pageVars>>

\* lines 245-257: the Analyze button, which line 356 disables while an analysis
\* runs; the handler up to its await, the call of lines 109-122 included
handleAnalyze ==
    /\ ~checker.isAnalyzing
    /\ pc = "idle"
    /\ IF trim(checker.essay) = <<>>
       THEN UNCHANGED <<checker, callVars>>
       ELSE /\ checker' = [checker EXCEPT !.isAnalyzing = TRUE, !.error = Null]
            /\ essay' = checker.essay
            /\ IF ~Truthy(apiGatewayUrl)
               THEN /\ outcome' = Thrown("Error", ConfigurationErrorMessage, 113)
                    /\ pc' = "done"
                    /\ UNCHANGED requests
               ELSE /\ requests' = Append(requests, Request(apiGatewayUrl.s, checker.essay))
                    /\ pc' = "fetch"
                    /\ UNCHANGED outcome
            /\ UNCHANGED resp
    /\ UNCHANGED <<apiGatewayUrl, calls, wire, pageVars>>

\* Resumed, were the results of the analysis before cleared by a failure
ResumedClearing(c, o) ==
    IF o.kind = "returned"
    THEN [c EXCEPT !.strengths = Or(o.result.strengths, Arr(<<>>)),
                   !.weaknesses = Or(o.result.weaknesses, Arr(<<>>)),
                   !.suggestions = Or(o.result.suggestions, Arr(<<>>)),
                   !.grammarSummary = Or(o.result.grammar, Obj(<<>>)),
                   !.hasAnalyzed = TRUE,
                   !.isAnalyzing = FALSE]
    ELSE [c EXCEPT !.strengths = Arr(<<>>), !.weaknesses = Arr(<<>>),
                   !.suggestions = Arr(<<>>), !.grammarSummary = Obj(<<>>),
                   !.hasAnalyzed = FALSE,
                   !.error = Str(o.message),
                   !.isAnalyzing = FALSE]

\* lines 257-277: the state c of the page after the awaited call settled to o;
\* every rejection of the call is an Error, whose message line 272 takes
Resumed(c, o) ==
    IF o.kind = "returned"
    THEN [c EXCEPT !.strengths = Or(o.result.strengths, Arr(<<>>)),
                   !.weaknesses = Or(o.result.weaknesses, Arr(<<>>)),
                   !.suggestions = Or(o.result.suggestions, Arr(<<>>)),
                   !.grammarSummary = Or(o.result.grammar, Obj(<<>>)),
                   !.hasAnalyzed = TRUE,
                   !.isAnalyzing = FALSE]
    ELSE [c EXCEPT !.error = Str(o.message),
                   !.isAnalyzing = FALSE]

\* lines 257-277: the call has settled and handleAnalyze resumes
handleAnalyzeResumes ==
    /\ checker.isAnalyzing
    /\ pc = "done"
    /\ checker' = Resumed(checker, outcome)
    /\ pc' = "idle"
    /\ essay' = <<>>
    /\ requests' = <<>>
    /\ resp' = NoResponse
    /\ outcome' = Pending
    /\ UNCHANGED <<apiGatewayUrl, calls, wire, pageVars>>

NextAnalyze ==
    \/ \E text \in EssayTexts : setEssay(text)
    \/ handleAnalyze
    \/ FetchRejects
    \/ \E st \in Statuses, b \in OverlapBodies : FetchResolves(st, b)
    \/ Settle
    \/ handleAnalyzeResumes

SpecAnalyze == Init /\ [][NextAnalyze]_vars

(***************************************************************************)
(* The claims                                                              *)
(***************************************************************************)

\* the request line 117 makes of each endpoint and essay
RequestOf ==
    [u \in {x.s : x \in {y \in Endpoints : IsString(y)}}, e \in Essays |-> Request(u, e)]

\* the body as line 124 reads it, and data?.response
Data == ResponseData(resp.body)

BotReply == Get(Data, Chars("response"))

\* the call has settled after the endpoint answered
HasSettled == pc = "done" /\ resp # NoResponse

\* the call has settled and a response text went through lines 139-206
TextHanded == HasSettled /\ Ok(resp.status) /\ IsString(BotReply) /\ Truthy(BotReply)

\* the text the one try statement that runs hands to JSON.parse, and its parse
CandidateOf(reply) ==
    LET m == summaryMatch(reply)
    IN  IF m.found THEN MarkerCandidate(m.group) ELSE WholeCandidate(reply)

ParsedOf(reply) == JSONParse(CandidateOf(reply))

Structured == outcome.kind = "returned" /\ outcome.tier \in {"marker", "whole"}

\* the error kinds of the client, by the statement that raises
ErrorKind(o) ==
    CASE o.line = 113 -> "ConfigurationError"
      [] o.line = 117 -> "TransportError"
      [] o.line \in {129, 134} -> "ResponseError"
      [] OTHER -> "Other"

\* C1: every response text handed to the normalization step ends in a returned
\* summary; no exception escapes it.
C1_NormalizationTotal == TextHanded => outcome.kind = "returned"

\* malformed JSON after a found marker was normalized
C1_Witness ==
    /\ TextHanded
    /\ summaryMatch(BotReply.s).found
    /\ ParsedOf(BotReply.s).threw
    /\ outcome.kind = "returned"

\* C2: when the marker is found and the marker-anchored candidate fails to parse,
\* the whole trimmed, fence-stripped reply is tried as JSON next, and the line
\* heuristic is used only if that fails too.
C2_TierFallthrough ==
    TextHanded =>
        LET m == summaryMatch(BotReply.s)
        IN  (m.found /\ JSONParse(MarkerCandidate(m.group)).threw) =>
                LET w == TryStructured(WholeCandidate(BotReply.s))
                IN  IF w.status = "returned"
                    THEN outcome = Returned("whole", w.result)
                    ELSE outcome.kind = "returned" /\ outcome.tier = "heuristic"

\* C3: every call ends in a returned summary, a ConfigurationError, a
\* TransportError or a ResponseError, whatever the body holds.
C3_FourOutcomes ==
    pc = "done" =>
        \/ outcome.kind = "returned"
        \/ /\ outcome.kind = "thrown"
           /\ ErrorKind(outcome) \in {"ConfigurationError", "TransportError", "ResponseError"}

\* C4: with no endpoint configured the call fails with the configuration error and
\* no request is ever handed to fetch.
C4_NoEndpointNoRequest ==
    ~Truthy(apiGatewayUrl) =>
        /\ requests = <<>>
        /\ pc \in {"idle", "done"}
        /\ pc = "done" =>
              /\ outcome.kind = "thrown"
              /\ ErrorKind(outcome) = "ConfigurationError"
              /\ outcome.message = ConfigurationErrorMessage

\* the endpoint is set but empty, and the call has failed
C4_Witness == apiGatewayUrl = Str(<<>>) /\ pc = "done" /\ outcome.kind = "thrown"

\* the JSON text of { message: buildEssayPrompt(essay), history: [] }, by essay
BodyOf ==
    [e \in Essays |-> JSONStringify(Obj(<<Prop(Chars("message"), Str(buildEssayPrompt(e))),
                                          Prop(Chars("history"), Arr(<<>>))>>))]

\* C5: an invocation with an endpoint hands exactly one request to fetch, however
\* it ends; nothing is sent again after a failure.
C5_OneRequest ==
    /\ pc = "idle" => requests = <<>>
    /\ (Truthy(apiGatewayUrl) /\ pc # "idle") =>
          /\ Len(requests) = 1
          /\ requests[1].url = apiGatewayUrl.s
          /\ requests[1].body = BodyOf[essay]

\* a call that failed in transport, and one request sent
C5_Witness == pc = "done" /\ outcome = FetchFailure /\ Len(requests) = 1

\* the message msg holds the text of the value v
Carries(msg, v) == includes(msg, JSToString(v))

\* the message holds the body's error, else its message, else the HTTP status, and
\* the body's details; present is truthy
CarriesBodyDetail(msg) ==
    LET e == Get(Data, Chars("error"))
        m == Get(Data, Chars("message"))
        d == Get(Data, Chars("details"))
    IN  /\ Truthy(e) => Carries(msg, e)
        /\ (~Truthy(e) /\ Truthy(m)) => Carries(msg, m)
        /\ (~Truthy(e) /\ ~Truthy(m)) =>
              includes(msg, Chars("HTTP ") \o NumberToString(resp.status))
        /\ Truthy(d) => Carries(msg, d)

IsStringArray(v) == IsArray(v) /\ \A i \in DOMAIN v.a : IsString(v.a[i])

OptionalString(v) == v = Undefined \/ IsString(v)

\* GrammarIssue, lines 17-22
IsGrammarIssue(v) ==
    /\ IsObject(v)
    /\ \A k \in {"type", "message", "sentence", "suggestion"} : OptionalString(Get(v, Chars(k)))

\* the grammar member of AnalysisResult, lines 28-31
IsGrammarReport(g) ==
    /\ IsObject(g)
    /\ Get(g, Chars("overallScore")).t \in {"undefined", "number"}
    /\ LET issues == Get(g, Chars("issues"))
       IN  issues = Undefined
           \/ (IsArray(issues) /\ \A i \in DOMAIN issues.a : IsGrammarIssue(issues.a[i]))

\* C7: in every summary returned, strengths, weaknesses and suggestions are each a
\* sequence of strings and grammar is absent or a grammar report.
C7_OutputShape ==
    (pc = "done" /\ outcome.kind = "returned") =>
        /\ IsStringArray(outcome.result.strengths)
        /\ IsStringArray(outcome.result.weaknesses)
        /\ IsStringArray(outcome.result.suggestions)
        /\ outcome.result.grammar = Undefined \/ IsGrammarReport(outcome.result.grammar)

\* a field is there and is no sequence
WrongShape(v) == v # Undefined /\ ~IsArray(v)

\* v when it is a sequence, else the empty sequence
ArrayOrEmpty(v) == IF IsArray(v) THEN v ELSE Arr(<<>>)

\* sections.<name>.suggestions of the parsed value
SectionField(parsed, name) ==
    Get(Get(Get(parsed, Chars("sections")), name), Chars("suggestions"))

\* the sequences among the four sections' suggestions, concatenated in the order
\* Introduction, Body, Conclusion, GrammarEditing
SectionsInOrder(parsed) ==
    Arr(ArrayOrEmpty(SectionField(parsed, Chars("Introduction"))).a
        \o ArrayOrEmpty(SectionField(parsed, Chars("Body"))).a
        \o ArrayOrEmpty(SectionField(parsed, Chars("Conclusion"))).a
        \o ArrayOrEmpty(SectionField(parsed, Chars("GrammarEditing"))).a)

\* C8: a parsed strengths, weaknesses or suggestions of the wrong shape is treated
\* as absent: the next alternative is used and the structured tier succeeds.
C8_WrongShapeIsAbsent ==
    (TextHanded /\ ~ParsedOf(BotReply.s).threw /\ IsObject(ParsedOf(BotReply.s).val)) =>
        LET parsed == ParsedOf(BotReply.s).val
        IN  /\ WrongShape(Get(parsed, Chars("strengths"))) =>
                  /\ Structured
                  /\ outcome.result.strengths = ArrayOrEmpty(Get(parsed, Chars("positiveFeedback")))
            /\ WrongShape(Get(parsed, Chars("weaknesses"))) =>
                  /\ Structured
                  /\ outcome.result.weaknesses = ArrayOrEmpty(Get(parsed, Chars("negativeFeedback")))
            /\ WrongShape(Get(parsed, Chars("suggestions"))) =>
                  /\ Structured
                  /\ outcome.result.suggestions = SectionsInOrder(parsed)

\* the field of the result is the primary key's sequence when the parsed value
\* has one; without the primary key it is the alias's sequence, and empty
\* without both keys
Precedence(parsed, got, primary, alias) ==
    /\ IsArray(Get(parsed, primary)) => got = Get(parsed, primary)
    /\ (~HasKey(parsed, primary) /\ IsArray(Get(parsed, alias))) => got = Get(parsed, alias)
    /\ (~HasKey(parsed, primary) /\ ~HasKey(parsed, alias)) => got = Arr(<<>>)

SectionsWellShaped(parsed) ==
    \A i \in DOMAIN SectionNames :
        LET v == SectionField(parsed, SectionNames[i]) IN IsArray(v) \/ ~Truthy(v)

C11_GrammarWhenKeyed ==
    (TextHanded /\ outcome.kind = "returned") =>
        IF Structured /\ HasKey(ParsedOf(BotReply.s).val, Chars("grammar"))
        THEN outcome.result.grammar = Get(ParsedOf(BotReply.s).val, Chars("grammar"))
        ELSE outcome.result.grammar = Undefined

\* C11 as amended: grammar is parsed.grammar when a structured tier succeeded and
\* parsed.grammar is truthy (not null, false, 0 or the empty text), and is absent
\* otherwise, in every result of the heuristic tier in particular.
C11_GrammarWhenTruthy ==
    (TextHanded /\ outcome.kind = "returned") =>
        IF Structured /\ Truthy(Get(ParsedOf(BotReply.s).val, Chars("grammar")))
        THEN outcome.result.grammar = Get(ParsedOf(BotReply.s).val, Chars("grammar"))
        ELSE outcome.result.grammar = Undefined

\* a structured result whose grammar is the report the parsed value holds
C11_Witness ==
    /\ TextHanded
    /\ Structured
    /\ IsObject(Get(ParsedOf(BotReply.s).val, Chars("grammar")))
    /\ Get(Get(ParsedOf(BotReply.s).val, Chars("grammar")), Chars("overallScore")) = Num(82)
    /\ outcome.result.grammar = Get(ParsedOf(BotReply.s).val, Chars("grammar"))

\* a when it is a sequence, else b when it is one, else the empty sequence
FirstArray(a, b) == IF IsArray(a) THEN a ELSE IF IsArray(b) THEN b ELSE Arr(<<>>)

\* the field reconciliation of a parsed object, a field of the wrong shape
\* counting as absent
Reconciled(parsed) ==
    AnalysisResult(FirstArray(Get(parsed, Chars("strengths")), Get(parsed, Chars("positiveFeedback"))),
                   FirstArray(Get(parsed, Chars("weaknesses")), Get(parsed, Chars("negativeFeedback"))),
                   FirstArray(Get(parsed, Chars("suggestions")), SectionsInOrder(parsed)),
                   Or(Get(parsed, Chars("grammar")), Undefined))

\* the marker is in the reply and the text after its first occurrence, fences
\* stripped and sliced from its first { to its last }, parses as a JSON object
MarkerObjectParses(reply) ==
    LET m == summaryMatch(reply)
    IN  /\ m.found
        /\ ~JSONParse(MarkerCandidate(m.group)).threw
        /\ IsObject(JSONParse(MarkerCandidate(m.group)).val)

\* C12: whenever the reply holds the marker, in any letter case, followed by : or
\* =, and the text after its first occurrence, fences stripped and sliced from
\* the first { to the last }, parses as a JSON object, the result is that
\* object's reconciled fields, whatever narrative or fence surrounds the JSON.
C12_MarkerExtraction ==
    (TextHanded /\ MarkerObjectParses(BotReply.s)) =>
        /\ outcome.kind = "returned"
        /\ outcome.tier = "marker"
        /\ outcome.result = Reconciled(ParsedOf(BotReply.s).val)

\* the result is the heuristic tier's
ByHeuristic == TextHanded /\ outcome.kind = "returned" /\ outcome.tier = "heuristic"

\* a line's lower-cased form begins with positive or + or contains strength
ReadsAsStrength(line) ==
    LET l == toLowerCase(line)
    IN  \/ startsWith(l, Chars("positive")) \/ startsWith(l, <<"+">>)
        \/ includes(l, Chars("strength"))

\* another line, whose lower-cased form begins with negative or - or contains
\* improv or weak
ReadsAsWeakness(line) ==
    LET l == toLowerCase(line)
    IN  /\ ~ReadsAsStrength(line)
        /\ \/ startsWith(l, Chars("negative")) \/ startsWith(l, <<"-">>)
           \/ includes(l, Chars("improv")) \/ includes(l, Chars("weak"))

\* the line without a leading sign and the white space between the sign and the text
WithoutSign(line, sign) ==
    IF line # <<>> /\ Head(line) = sign
    THEN LET rest == Tail(line)
             blanks == {n \in 0..Len(rest) : \A i \in 1..n : rest[i] \in WhiteSpace}
         IN  SubSeq(rest, 1 + (CHOOSE n \in blanks : \A k \in blanks : k <= n), Len(rest))
    ELSE line

\* the lines at the positions in S, in the order of the reply, without the sign
Entered(lines, S, sign) ==
    Arr([k \in 1..Cardinality(S) |->
            Str(WithoutSign(lines[CHOOSE i \in S : Cardinality({j \in S : j <= i}) = k], sign))])

\* C13: in the heuristic tier each non-empty trimmed line that begins with
\* positive or + or contains strength is appended to strengths without a leading
\* +, each other line that begins with negative or - or contains improv or weak
\* is appended to weaknesses without a leading -, the remaining lines are
\* discarded, the order of the lines is kept and suggestions is empty. (A
\* stripped sign takes the white space that follows it along; when no line is
\* classified strengths holds the single entry of C15.)
C13_HeuristicClassification ==
    ByHeuristic =>
        LET lines == ReplyLines(BotReply.s)
            P == {i \in DOMAIN lines : ReadsAsStrength(lines[i])}
            N == {i \in DOMAIN lines : ReadsAsWeakness(lines[i])}
        IN  /\ outcome.result.weaknesses = Entered(lines, N, "-")
            /\ (P \cup N # {}) => outcome.result.strengths = Entered(lines, P, "+")
            /\ outcome.result.suggestions = Arr(<<>>)

\* a reply of signed lines, one of them signed - and holding the word strength:
\* it is a strength and keeps its sign
C13_Witness ==
    /\ ByHeuristic
    /\ BotReply.s = Chars("+ nice flow\r\n-  bad ending\n\n - strength in the body")
    /\ outcome.result.strengths = Arr(<<Str(Chars("nice flow")), Str(Chars("- strength in the body"))>>)
    /\ outcome.result.weaknesses = Arr(<<Str(Chars("bad ending"))>>)

\* the three lines of the example
LabelledLines == Chars("Positive: good structure\nNegative: weak conclusion\nrandom line")

\* C14: for the reply of the three lines Positive: good structure, Negative: weak
\* conclusion, random line, the result is strengths = [good structure],
\* weaknesses = [weak conclusion]: the label is not part of the stored entry and
\* the unclassified line is discarded.
C14_LabelsStripped ==
    (TextHanded /\ BotReply.s = LabelledLines) =>
        /\ outcome.kind = "returned"
        /\ outcome.result.strengths = Arr(<<Str(Chars("good structure"))>>)
        /\ outcome.result.weaknesses = Arr(<<Str(Chars("weak conclusion"))>>)

\* C14 as amended: for that reply the result is strengths = [Positive: good
\* structure], weaknesses = [Negative: weak conclusion], suggestions empty: the
\* label stays in the stored entry and the unclassified line is discarded.
C14_LabelsKept ==
    (TextHanded /\ BotReply.s = LabelledLines) =>
        /\ outcome.kind = "returned"
        /\ outcome.result.strengths = Arr(<<Str(Chars("Positive: good structure"))>>)
        /\ outcome.result.weaknesses = Arr(<<Str(Chars("Negative: weak conclusion"))>>)
        /\ outcome.result.suggestions = Arr(<<>>)

\* the call settled on the three lines with one strength and one weakness
C14_Witness ==
    /\ ByHeuristic
    /\ BotReply.s = LabelledLines
    /\ Len(outcome.result.strengths.a) = 1
    /\ Len(outcome.result.weaknesses.a) = 1

\* C15: whenever the heuristic tier is reached and no line is classified, the
\* result is strengths = [the whole reply, untrimmed], weaknesses and suggestions
\* empty; so every result of the heuristic tier has an entry in strengths or in
\* weaknesses.
C15_SingleEntryFallback ==
    ByHeuristic =>
        LET lines == ReplyLines(BotReply.s)
        IN  /\ (\A i \in DOMAIN lines : ~ReadsAsStrength(lines[i]) /\ ~ReadsAsWeakness(lines[i])) =>
                  /\ outcome.result.strengths = Arr(<<BotReply>>)
                  /\ outcome.result.weaknesses = Arr(<<>>)
                  /\ outcome.result.suggestions = Arr(<<>>)
            /\ Len(outcome.result.strengths.a) + Len(outcome.result.weaknesses.a) >= 1

\* a reply of white space alone: the entry is the reply, white space and all
C15_Witness ==
    /\ ByHeuristic
    /\ BotReply.s # <<>>
    /\ trim(BotReply.s) = <<>>
    /\ outcome.result.strengths = Arr(<<BotReply>>)

\* a summary with nothing in it
EmptySummary(r) ==
    /\ r.strengths = Arr(<<>>)
    /\ r.weaknesses = Arr(<<>>)
    /\ r.suggestions = Arr(<<>>)
    /\ r.grammar = Undefined

\* C16: no response text that passes the envelope check yields a summary in
\* which strengths, weaknesses and suggestions are all empty and grammar is
\* absent: the worst case holds the raw text as its one strengths entry.
C16_NeverEmpty ==
    (TextHanded /\ outcome.kind = "returned") => ~EmptySummary(outcome.result)

\* the summary as a value, its keys in the order of the object literal of line 163
SummaryValue(r) ==
    Obj(<<Prop(Chars("strengths"), r.strengths), Prop(Chars("weaknesses"), r.weaknesses),
          Prop(Chars("suggestions"), r.suggestions), Prop(Chars("grammar"), r.grammar),
          Prop(Chars("success"), Bool(r.success))>>)

\* the summary, written as JSON and normalized again
Renormalized(r) == Normalize(JSONStringify(SummaryValue(r)))

\* C17: for every summary S that normalization produces, from any tier and with
\* any entries, serializing S to JSON and normalizing that text again yields a
\* summary with the same strengths, weaknesses, suggestions and grammar as S.
C17_RoundTrip ==
    (TextHanded /\ outcome.kind = "returned") =>
        LET again == Renormalized(outcome.result)
        IN  /\ again.kind = "returned"
            /\ again.result.strengths = outcome.result.strengths
            /\ again.result.weaknesses = outcome.result.weaknesses
            /\ again.result.suggestions = outcome.result.suggestions
            /\ again.result.grammar = outcome.result.grammar

\* the message of the request the invocation handed to fetch
MessageSent == Get(JSONParse(requests[1].body).val, Chars("message")).s

\* the message without the essay at its end
InstructionPart == SubSeq(MessageSent, 1, Len(MessageSent) - Len(essay))

\* C18: the prompt built for an essay ends with the essay text verbatim and
\* holds the exact text JSON_SUMMARY= in its instruction part, for every essay
\* text; it is a function of the essay text alone. Stated of the request as it
\* is handed to fetch.
C18_PromptShape ==
    (pc = "fetch" /\ requests # <<>>) =>
        /\ Len(MessageSent) >= Len(essay)
        /\ SubSeq(MessageSent, Len(MessageSent) - Len(essay) + 1, Len(MessageSent)) = essay
        /\ includes(InstructionPart, Chars("JSON_SUMMARY="))
        /\ \A e \in Essays : InstructionPart \o e = buildEssayPrompt(e)

\* a request is out for the essay that holds the marker itself
C18_Witness ==
    /\ pc = "fetch"
    /\ requests # <<>>
    /\ includes(essay, Chars("JSON_SUMMARY="))
    /\ includes(MessageSent, essay)

\* the requests on the wire that invocation i handed to fetch
RequestsOf(i) == {k \in DOMAIN wire : wire[k].by = i}

\* what invocation i settles to when it runs alone on its own essay and the
\* network's answer to its own request
Alone(i) ==
    IF ~Truthy(apiGatewayUrl) THEN Thrown("Error", ConfigurationErrorMessage, 113)
    ELSE LET a == wire[CHOOSE k \in RequestsOf(i) : TRUE].answer
         IN  IF a.kind = "rejected" THEN FetchFailure
             ELSE Settled(a.resp.status, a.resp.statusText, a.resp.body)

\* C19: two overlapping invocations are independent: under every interleaving
\* each one's outcome is the one it would have produced alone on its own essay
\* and its own response, and each one's request is on the wire, once, whatever
\* the other does.
C19_Independent ==
    \A i \in Invocations :
        /\ calls[i].pc = "idle" => RequestsOf(i) = {}
        /\ (calls[i].pc # "idle" /\ ~Truthy(apiGatewayUrl)) => RequestsOf(i) = {}
        /\ (calls[i].pc # "idle" /\ Truthy(apiGatewayUrl)) =>
              /\ Cardinality(RequestsOf(i)) = 1
              /\ \A k \in RequestsOf(i) : wire[k].request = RequestOf[apiGatewayUrl.s, calls[i].essay]
        /\ calls[i].pc = "done" => calls[i].outcome = Alone(i)

\* the second invocation was made after the first, on another essay, and has
\* settled with a summary while the first still waits to read its answer
C19_Witness ==
    /\ Len(wire) = 2
    /\ wire[1].by = 1
    /\ calls[1].pc = "json"
    /\ calls[2].pc = "done"
    /\ calls[1].essay # calls[2].essay
    /\ calls[2].outcome.kind = "returned"
    /\ calls[1].resp # calls[2].resp

\* C20: once the Dashboard has mounted, and after any sequence of saves and
\* deletes, localStorage["assignments"] is the JSON text of the list in memory,
\* and reading it back as a mount does gives that list.
C20_AssignmentsPersisted ==
    mounted =>
        /\ getItem(localStorage, Chars("assignments")) = Str(JSONStringify(assignments))
        /\ ~JSONParse(localStorage[Chars("assignments")]).threw
        /\ JSONParse(localStorage[Chars("assignments")]).val = assignments

\* the first seeded assignment was deleted and one was saved from a form with
\* quotes, a line feed and white space around its fields
C20_Witness ==
    /\ mounted
    /\ Len(assignments.a) = 2
    /\ Get(assignments.a[1], Chars("id")) = Str(Chars("2"))
    /\ Get(assignments.a[2], Chars("title")) = Str(Chars("Lab \"2\""))
    /\ Get(assignments.a[2], Chars("language")) = Str(Chars("Tamil"))
    /\ Chars("assignments") \in DOMAIN localStorage

\* the candidate of the marker branch before it is sliced: the text after the
\* marker, trimmed, its fences stripped
FenceStripped(reply) == StripFences(trim(summaryMatch(reply).group))

\* the text from the first { to the last } of c, both included, when c holds
\* both and the last } comes after the first {; c itself otherwise
BraceSpan(c) ==
    LET opens  == {i \in DOMAIN c : c[i] = "{"}
        closes == {i \in DOMAIN c : c[i] = "}"}
    IN  IF opens # {} /\ closes # {}
           /\ (CHOOSE j \in closes : \A k \in closes : k <= j) > Min(opens)
        THEN [n \in 1..((CHOOSE j \in closes : \A k \in closes : k <= j) - Min(opens) + 1) |->
                 c[Min(opens) + n - 1]]
        ELSE c

\* C22: in Tier 1 the fence-stripped candidate is replaced by exactly the text
\* from its first { to its last }, both included, when both exist and the last
\* follows the first, and is parsed unchanged otherwise; so narrative after the
\* JSON that holds a } is part of what is parsed.
C22_BraceSpanParsed ==
    (TextHanded /\ summaryMatch(BotReply.s).found) =>
        LET t == TryStructured(BraceSpan(FenceStripped(BotReply.s)))
        IN  IF t.status = "returned"
            THEN outcome = Returned("marker", t.result)
            ELSE ByHeuristic

\* the JSON after the marker is an object by itself, the narrative after it
\* holds a }, and the slice that takes the narrative in does not parse
C22_Witness ==
    /\ ByHeuristic
    /\ summaryMatch(BotReply.s).found
    /\ LET c == FenceStripped(BotReply.s)
       IN  /\ Len(c) > Len(Chars(" Thanks {friend}"))
           /\ SubSeq(c, Len(c) - Len(Chars(" Thanks {friend}")) + 1, Len(c)) = Chars(" Thanks {friend}")
           /\ ~JSONParse(SubSeq(c, 1, Len(c) - Len(Chars(" Thanks {friend}")))).threw
           /\ BraceSpan(c) = c
           /\ JSONParse(c).threw

\* a line's lower-cased form begins with negative or - or contains improv or weak
MeetsWeaknessTest(line) ==
    LET l == toLowerCase(line)
    IN  \/ startsWith(l, Chars("negative")) \/ startsWith(l, <<"-">>)
        \/ includes(l, Chars("improv")) \/ includes(l, Chars("weak"))

\* the place among the positions in S, in increasing order, of position i
RankIn(S, i) == Cardinality({j \in S : j <= i})

\* C24: in the heuristic tier every line lands in at most one list and the
\* strengths test comes first: a line that meets both a strengths and a
\* weaknesses condition is added to strengths only, and only a leading + (never
\* a leading -) is taken off it.
C24_StrengthsFirst ==
    ByHeuristic =>
        LET lines == ReplyLines(BotReply.s)
            P     == {i \in DOMAIN lines : ReadsAsStrength(lines[i])}
            W     == {i \in DOMAIN lines : MeetsWeaknessTest(lines[i])}
        IN  /\ Len(outcome.result.weaknesses.a) = Cardinality(W \ P)
            /\ (P \cup W # {}) =>
                  /\ Len(outcome.result.strengths.a) = Cardinality(P)
                  /\ Len(outcome.result.strengths.a) + Len(outcome.result.weaknesses.a) <= Len(lines)
                  /\ \A i \in P \cap W :
                        outcome.result.strengths.a[RankIn(P, i)] = Str(WithoutSign(lines[i], "+"))

\* a line signed - that holds the word strength is in strengths, sign and all,
\* and weaknesses holds the one line that is a weakness only
C24_Witness ==
    /\ ByHeuristic
    /\ \E i \in DOMAIN outcome.result.strengths.a :
          outcome.result.strengths.a[i] = Str(Chars("- strength in the body"))
    /\ Len(outcome.result.weaknesses.a) = 1
    /\ Len(ReplyLines(BotReply.s)) = 3

\* the ids of the assignments in the list in memory
ListIds(list) == {Get(list.a[i], Chars("id")).s : i \in DOMAIN list.a}

\* the list without the assignments of this id, the others in their order
Without(list, id) == Arr(SelectSeq(list.a, LAMBDA a : Get(a, Chars("id")) # Str(id)))

\* a step of the mounted page that makes the list shorter: a delete
DeleteStep == mounted /\ mounted' /\ Len(assignments'.a) < Len(assignments.a)

\* C21: deleting an assignment removes every assignment with that id from the
\* list in memory and from localStorage["assignments"], removes
\* localStorage["assignment_students_<id>"] for that id, and leaves all other
\* assignments, their order and the other assignments' student data unchanged.
C21_DeleteEffect ==
    [][DeleteStep =>
        \E id \in ListIds(assignments) :
            /\ assignments' = Without(assignments, id)
            /\ localStorage'[Chars("assignments")] = JSONStringify(Without(assignments, id))
            /\ DOMAIN localStorage' = DOMAIN localStorage \ {StudentsKey(id)}
            /\ \A k \in DOMAIN localStorage' :
                  k # Chars("assignments") => localStorage'[k] = localStorage[k]]_vars

\* the first seeded assignment is gone with its students, the second is there
\* with its own
C21_Witness ==
    /\ mounted
    /\ ListIds(assignments) = {Chars("2")}
    /\ StudentsKey(Chars("2")) \in DOMAIN localStorage
    /\ StudentsKey(Chars("1")) \notin DOMAIN localStorage

\* the text stored under localStorage["assignments"], when there is one
StoredList == localStorage[Chars("assignments")]

\* a step that mounts the Dashboard
MountStep == ~mounted /\ mounted'

\* the ids of the two examples (lines 60 and 67)
ExampleIds == {Chars("1"), Chars("2")}

\* C23: the two example assignments are seeded exactly once: a mount that
\* finds no "assignments" entry in localStorage writes them, the entry once
\* written stays, a mount that finds an entry shows the stored list and writes
\* nothing, and no other step brings an example into the list or stores
\* anything but the list shown; so after every assignment is deleted a later
\* mount shows an empty list.
C23_SeededOnce ==
    [][/\ MountStep /\ Chars("assignments") \notin DOMAIN localStorage
             => /\ assignments' = seed
                /\ localStorage' = setItem(localStorage, Chars("assignments"),
                                           JSONStringify(seed))
       /\ Chars("assignments") \in DOMAIN localStorage
             => Chars("assignments") \in DOMAIN localStorage'
       /\ MountStep /\ Chars("assignments") \in DOMAIN localStorage
             => /\ localStorage' = localStorage
                /\ JSONStringify(assignments') = StoredList
                /\ StoredList = Chars("[]") => assignments' = Arr(<<>>)
       /\ ~MountStep
             => /\ (ListIds(assignments') \cap ExampleIds) \subseteq ListIds(assignments)
                /\ localStorage' # localStorage
                      => mounted' /\ localStorage'[Chars("assignments")]
                                        = JSONStringify(assignments')]_vars

\* the page is left with every assignment deleted: the next mount finds the
\* stored empty list
C23_Witness ==
    /\ ~mounted
    /\ Chars("assignments") \in DOMAIN localStorage
    /\ StoredList = Chars("[]")

\* C28: no two assignments of the list share an id, after any sequence of
\* seed, save and delete, two saves at one reading of the clock included.
C28_IdsUnique ==
    \A i, j \in DOMAIN assignments.a :
        Get(assignments.a[i], Chars("id")) = Get(assignments.a[j], Chars("id")) => i = j

\* a step in which a FileReader loads
LoadStep == Len(readers') < Len(readers)

\* a step in which the username field is edited
EditStep == Len(readers') = Len(readers) /\ mounted /\ profile' # profile

\* the profile in memory and the stored one agree after the step
ProfileStored ==
    /\ Chars("user_profile") \in DOMAIN localStorage'
    /\ localStorage'[Chars("user_profile")] = JSONStringify(profile')

\* C27: profile updates are never lost: whenever a FileReader started earlier
\* loads, the profile keeps the username it had (the latest one typed) and
\* gains the avatar read; whenever the username is edited the avatar stays;
\* and after either step the profile in memory and
\* localStorage["user_profile"] agree.
C27_UpdatesKept ==
    [][/\ LoadStep
             => /\ Get(profile', Chars("username")) = Get(profile, Chars("username"))
                /\ \E i \in DOMAIN readers :
                      Get(profile', Chars("avatarDataUrl")) = Str(readers[i].result)
                /\ ProfileStored
       /\ EditStep
             => /\ Get(profile', Chars("avatarDataUrl")) = Get(profile, Chars("avatarDataUrl"))
                /\ ProfileStored]_vars

\* the results the page shows
Results(c) == <<c.strengths, c.weaknesses, c.suggestions, c.grammarSummary, c.hasAnalyzed>>

\* C25: isAnalyzing is true exactly while a call started by handleAnalyze has
\* not been resumed from (the request is in flight or its outcome is being
\* taken), and false once it has; with a blank essay and no analysis running no
\* step starts a request or changes any state but the essay field.
C25_AnalyzingFlag ==
    /\ [](checker.isAnalyzing <=> pc # "idle")
    /\ [][trim(checker.essay) = <<>> /\ pc = "idle"
             => /\ UNCHANGED callVars
                /\ checker' = [checker EXCEPT !.essay = checker'.essay]]_vars

\* a second analysis is in flight after a first one gave results
C25_Witness ==
    /\ checker.isAnalyzing
    /\ pc = "fetch"
    /\ Len(requests) = 1
    /\ checker.hasAnalyzed

\* C26: when the call fails handleAnalyze sets error to the message of the
\* failure and leaves strengths, weaknesses, suggestions, grammarSummary and
\* hasAnalyzed as they were: the results change only when a call has
\* returned. error becomes non-null only by a failed call, and is null when an
\* analysis starts and when one succeeds.
C26_FailureFrame ==
    [][/\ pc = "done" /\ outcome.kind = "thrown" /\ pc' = "idle"
             => /\ checker'.error = Str(outcome.message)
                /\ Results(checker') = Results(checker)
       /\ Results(checker') # Results(checker)
             => pc = "done" /\ outcome.kind = "returned"
       /\ checker'.error # Null /\ checker'.error # checker.error
             => pc = "done" /\ outcome.kind = "thrown"
       /\ pc = "idle" /\ pc' # "idle" => checker'.error = Null
       /\ pc = "done" /\ outcome.kind = "returned" /\ pc' = "idle"
             => checker'.error = Null]_vars

\* an analysis failed after an earlier one gave strengths: the error is shown
\* over the results of the earlier one
C26_Witness ==
    /\ ~checker.isAnalyzing
    /\ checker.error = Str(Chars("quota exceeded"))
    /\ checker.hasAnalyzed
    /\ checker.strengths # Arr(<<>>)

====
